---------------------------- MODULE Spec2Model ----------------------------
(***************************************************************************)
(* Model of the game-site-scraper extraction engine.                       *)
(*                                                                         *)
(*   src/src/parser/util.rs          normalize_ws, bump_domain_count       *)
(*   src/src/parser/release_page.rs  the two extraction routines and their *)
(*                                   helpers                               *)
(*   src/src/parser/mod.rs           parse_one, parse_many                 *)
(*                                                                         *)
(* Text is modelled by TLA+ strings; an offset is a Rust byte offset       *)
(* (0-based), a slice text[a..b] is StrSlice(text, a, b).  An Option<T> is *)
(* a sequence of length at most one: None is << >>, Some(v) is << v >>.    *)
(***************************************************************************)
EXTENDS Integers, Sequences, FiniteSets, TLC

VARIABLES
    config,    \* the Config handed to parse_many
    files,     \* the input slice: files[i] is what lies at the i-th path
    idx,       \* number of inputs the for loop of parse_many has consumed
    docs,      \* parse_many: docs
    errs,      \* parse_many: errs
    attempts,  \* attempts[i]: number of times parse_one ran on input i
    bundle,    \* the OutputBundle parse_many returned (None until it returns)
    pc,        \* position of the program
    call,      \* arguments of the function applied on its own
    rets,      \* the values it returned, in call order
    stdout     \* the lines write_output has written

vars == << config, files, idx, docs, errs, attempts, bundle, pc, call, rets, stdout >>

batchVars == << config, files, idx, docs, errs, attempts, bundle >>

-----------------------------------------------------------------------------
(* Options and small helpers                                               *)

None == << >>

Some(v) == << v >>

IsSome(o) == o # << >>

Unwrap(o) == o[1]

Range(s) == { s[i] : i \in 1..Len(s) }

Min2(a, b) == IF a <= b THEN a ELSE b

SetMin(S) == CHOOSE m \in S : \A n \in S : m <= n

RECURSIVE StringsUpTo(_, _)
\* every string over the characters `alphabet' of length at most n
StringsUpTo(alphabet, n) ==
    IF n = 0 THEN { "" }
    ELSE LET shorter == StringsUpTo(alphabet, n - 1)
         IN  shorter \cup { s \o c : s \in shorter, c \in alphabet }

RECURSIVE DistinctSeqsUpTo(_, _)
\* every sequence of pairwise distinct elements of S of length at most n
DistinctSeqsUpTo(S, n) ==
    IF n = 0 THEN { << >> }
    ELSE LET shorter == DistinctSeqsUpTo(S, n - 1)
             longer  == { Append(q, x) : q \in shorter, x \in S }
         IN  shorter \cup
             { r \in longer : \A i, j \in 1..Len(r) : i < j => r[i] # r[j] }

-----------------------------------------------------------------------------
(* Strings as Rust sees them                                               *)

\* char::is_whitespace on the characters the model uses
IsWhitespace(c) == c \in { " ", "\t", "\n" }

CharAt(s, i) == SubSeq(s, i, i)

\* &s[a..b], byte offsets
StrSlice(s, a, b) == SubSeq(s, a + 1, b)

\* pat occurs in s at byte offset p
OccursAt(s, pat, p) ==
    /\ p >= 0
    /\ p + Len(pat) <= Len(s)
    /\ SubSeq(s, p + 1, p + Len(pat)) = pat

\* str::find: the byte offset of the first occurrence
Find(s, pat) ==
    LET hits == { p \in 0..(Len(s) - Len(pat)) : OccursAt(s, pat, p) }
    IN  IF hits = {} THEN None ELSE Some(SetMin(hits))

\* str::contains
Contains(s, pat) == IsSome(Find(s, pat))

StartsWith(s, pat) == OccursAt(s, pat, 0)

RECURSIVE TrimStart(_)
TrimStart(s) ==
    IF s # "" /\ IsWhitespace(CharAt(s, 1)) THEN TrimStart(SubSeq(s, 2, Len(s))) ELSE s

RECURSIVE TrimEnd(_)
TrimEnd(s) ==
    IF s # "" /\ IsWhitespace(CharAt(s, Len(s)))
    THEN TrimEnd(SubSeq(s, 1, Len(s) - 1))
    ELSE s

\* str::trim
Trim(s) == TrimEnd(TrimStart(s))

RECURSIVE WordLen(_)
\* length of the longest whitespace-free prefix
WordLen(s) ==
    IF s = "" \/ IsWhitespace(CharAt(s, 1)) THEN 0 ELSE 1 + WordLen(SubSeq(s, 2, Len(s)))

RECURSIVE SplitWhitespace(_)
\* str::split_whitespace, collected: the maximal whitespace-free runs, in order
SplitWhitespace(s) ==
    IF s = "" THEN << >>
    ELSE IF IsWhitespace(CharAt(s, 1)) THEN SplitWhitespace(SubSeq(s, 2, Len(s)))
    ELSE LET n == WordLen(s)
         IN  << SubSeq(s, 1, n) >> \o SplitWhitespace(SubSeq(s, n + 1, Len(s)))

RECURSIVE Join(_, _)
\* [&str]::join
Join(words, sep) ==
    IF words = << >> THEN ""
    ELSE IF Len(words) = 1 THEN words[1]
    ELSE words[1] \o sep \o Join(Tail(words), sep)

RECURSIVE CollapsePairsOnce(_)
\* a plausible wrong normalize_ws: one pass replacing each pair of spaces by one
CollapsePairsOnce(s) ==
    IF Len(s) < 2 THEN s
    ELSE IF IsWhitespace(CharAt(s, 1)) /\ IsWhitespace(CharAt(s, 2))
         THEN " " \o CollapsePairsOnce(SubSeq(s, 3, Len(s)))
         ELSE CharAt(s, 1) \o CollapsePairsOnce(SubSeq(s, 2, Len(s)))

normalize_ws_pairs(s) == Trim(CollapsePairsOnce(s))

normalize_ws(s) == Join(SplitWhitespace(s), " ")

-----------------------------------------------------------------------------
(* capture_between_labels                                                  *)

RECURSIVE capture_end(_, _, _, _)
\* the for loop of capture_between_labels: end after visiting next_labels
capture_end(text, start, next_labels, end) ==
    IF next_labels = << >> THEN end
    ELSE LET pos == Find(StrSlice(text, start, Len(text)), Head(next_labels))
         IN  capture_end(text, start, Tail(next_labels),
                         IF IsSome(pos) THEN Min2(end, start + Unwrap(pos)) ELSE end)

RECURSIVE capture_end_first(_, _, _, _)
\* a plausible wrong loop: the first listed label that occurs decides the end
capture_end_first(text, start, next_labels, end) ==
    IF next_labels = << >> THEN end
    ELSE LET pos == Find(StrSlice(text, start, Len(text)), Head(next_labels))
         IN  IF IsSome(pos) THEN start + Unwrap(pos)
             ELSE capture_end_first(text, start, Tail(next_labels), end)

\* capture_between_labels with the wrong loop above
capture_between_labels_first(text, label, next_labels) ==
    LET found == Find(text, label)
    IN  IF ~IsSome(found) THEN None
        ELSE LET start == Unwrap(found) + Len(label)
                 end   == capture_end_first(text, start, next_labels, Len(text))
                 value == Trim(StrSlice(text, start, end))
             IN  IF value = "" THEN None ELSE Some(value)

\* a plausible wrong capture_between_labels: a missing label is taken to start
\* the segment at offset 0 (unwrap_or(0) in place of the ? operator)
capture_between_labels_unanchored(text, label, next_labels) ==
    LET found == Find(text, label)
        start == IF IsSome(found) THEN Unwrap(found) + Len(label) ELSE 0
        end   == capture_end(text, start, next_labels, Len(text))
        value == Trim(StrSlice(text, start, end))
    IN  IF value = "" THEN None ELSE Some(value)

capture_between_labels(text, label, next_labels) ==
    LET found == Find(text, label)
    IN  IF ~IsSome(found) THEN None
        ELSE LET start == Unwrap(found) + Len(label)
                 end   == capture_end(text, start, next_labels, Len(text))
                 value == Trim(StrSlice(text, start, end))
             IN  IF value = "" THEN None ELSE Some(value)

-----------------------------------------------------------------------------
(* Characters, ordering and numbers                                        *)

\* the printable ASCII characters in code order: 32 (space) to 95, and 97 to 126
AsciiTo95 ==
    " !\"#$%&'()*+,-./0123456789:;<=>?@ABCDEFGHIJKLMNOPQRSTUVWXYZ[\\]^_"

AsciiFrom97 == "abcdefghijklmnopqrstuvwxyz{|}~"

Digits == "0123456789"

Upper == "ABCDEFGHIJKLMNOPQRSTUVWXYZ"

Lower == "abcdefghijklmnopqrstuvwxyz"

IndexIn(alphabet, c) == CHOOSE i \in 1..Len(alphabet) : CharAt(alphabet, i) = c

IsIn(alphabet, c) == \E i \in 1..Len(alphabet) : CharAt(alphabet, i) = c

\* the byte value of a character
CharCode(c) ==
    IF c = "\t" THEN 9
    ELSE IF c = "\n" THEN 10
    ELSE IF IsIn(AsciiTo95, c) THEN IndexIn(AsciiTo95, c) + 31
    ELSE IndexIn(AsciiFrom97, c) + 96

IsDigit(c) == IsIn(Digits, c)

RECURSIVE to_ascii_lowercase(_)
\* str::to_ascii_lowercase
to_ascii_lowercase(s) ==
    IF s = "" THEN ""
    ELSE LET c == CharAt(s, 1)
         IN  (IF IsIn(Upper, c) THEN CharAt(Lower, IndexIn(Upper, c)) ELSE c)
                 \o to_ascii_lowercase(SubSeq(s, 2, Len(s)))

RECURSIVE StrLess(_, _)
\* a < b in the order of str (bytewise lexicographic)
StrLess(a, b) ==
    IF b = "" THEN FALSE
    ELSE IF a = "" THEN TRUE
    ELSE IF CharAt(a, 1) = CharAt(b, 1)
         THEN StrLess(SubSeq(a, 2, Len(a)), SubSeq(b, 2, Len(b)))
         ELSE CharCode(CharAt(a, 1)) < CharCode(CharAt(b, 1))

RECURSIVE InsertSorted(_, _)
InsertSorted(sorted, x) ==
    IF sorted = << >> THEN << x >>
    ELSE IF StrLess(x, Head(sorted)) THEN << x >> \o sorted
    ELSE << Head(sorted) >> \o InsertSorted(Tail(sorted), x)

RECURSIVE Sort(_)
\* Vec<String>::sort
Sort(v) == IF v = << >> THEN << >> ELSE InsertSorted(Sort(Tail(v)), Head(v))

RECURSIVE Dedup(_)
\* Vec::dedup: consecutive repeated elements are removed
Dedup(v) ==
    IF Len(v) < 2 THEN v
    ELSE IF v[1] = v[2] THEN Dedup(Tail(v))
    ELSE << v[1] >> \o Dedup(Tail(v))

RECURSIVE DigitRunLen(_, _)
\* number of leading digits of s, at most max
DigitRunLen(s, max) ==
    IF s = "" \/ max = 0 \/ ~IsDigit(CharAt(s, 1)) THEN 0
    ELSE 1 + DigitRunLen(SubSeq(s, 2, Len(s)), max - 1)

RECURSIVE DecimalValue(_, _)
DecimalValue(s, acc) ==
    IF s = "" THEN acc
    ELSE DecimalValue(SubSeq(s, 2, Len(s)), 10 * acc + IndexIn(Digits, CharAt(s, 1)) - 1)

\* str::parse::<u64>().ok() on a run of digits (the model's runs stay far
\* below 2^64, where parse overflows and .ok() gives None)
ParseU64(digits) == Some(DecimalValue(digits, 0))

-----------------------------------------------------------------------------
(* The parsed document.  Html::parse_document and the selector engine are  *)
(* the scraper crate's; the model holds what they answer.  An html value   *)
(* is [raw, select]: raw is the text of the file, select maps a selector   *)
(* to the elements it matches, in document order.  An element is           *)
(* [attrs, nodes, inner]: its attributes, its descendant text nodes in     *)
(* order, and what selectors match inside it.                              *)

\* doc.select(&selector), collected
Select(scope, selector) ==
    IF selector \in DOMAIN scope THEN scope[selector] ELSE << >>

\* e.value().attr(name)
Attr(e, name) == IF name \in DOMAIN e.attrs THEN Some(e.attrs[name]) ELSE None

\* normalize_ws(&e.text().collect::<Vec<_>>().join(" "))
ElementText(e) == normalize_ws(Join(e.nodes, " "))

select_text(doc, selector) ==
    LET matched == Select(doc.select, selector)
    IN  IF matched = << >> THEN None
        ELSE LET t == ElementText(matched[1])
             IN  IF t = "" THEN None ELSE Some(t)

RECURSIVE NonEmptyTexts(_)
\* the filter_map of select_all_text and extract_anchor_texts_from_fragment
NonEmptyTexts(elements) ==
    IF elements = << >> THEN << >>
    ELSE LET t == ElementText(Head(elements))
         IN  (IF t = "" THEN << >> ELSE << t >>) \o NonEmptyTexts(Tail(elements))

select_all_text(doc, selector) == NonEmptyTexts(Select(doc.select, selector))

select_attr(doc, selector, attr) ==
    LET matched == Select(doc.select, selector)
    IN  IF matched = << >> THEN None ELSE Attr(matched[1], attr)

\* BTreeMap::entry(k).or_insert(v)
OrInsert(map, k, v) == IF k \in DOMAIN map THEN map ELSE map @@ (k :> v)

RECURSIVE meta_tags_loop(_, _)
meta_tags_loop(metas, out) ==
    IF metas = << >> THEN out
    ELSE LET node    == Head(metas)
             key     == IF IsSome(Attr(node, "property")) THEN Attr(node, "property")
                        ELSE Attr(node, "name")
             content == Attr(node, "content")
         IN  meta_tags_loop(Tail(metas),
                 IF IsSome(key) /\ IsSome(content)
                 THEN OrInsert(out, Unwrap(key), Unwrap(content))
                 ELSE out)

extract_meta_tags(doc) == meta_tags_loop(Select(doc.select, "meta"), << >>)

RECURSIVE FirstContaining(_, _)
FirstContaining(paragraphs, needle) ==
    IF paragraphs = << >> THEN None
    ELSE IF Contains(ElementText(Head(paragraphs)), needle) THEN Some(Head(paragraphs))
    ELSE FirstContaining(Tail(paragraphs), needle)

\* returns the paragraph itself, which stands for its inner_html
find_first_paragraph_html_containing(doc, selector, needle) ==
    FirstContaining(Select(doc.select, selector), needle)

extract_anchor_texts_from_fragment(fragment_html, selector) ==
    Dedup(Sort(NonEmptyTexts(Select(fragment_html.inner, selector))))

html_to_text(fragment_html) == ElementText(fragment_html)

RECURSIVE SplitOn(_, _)
\* str::split(c), collected
SplitOn(s, c) ==
    LET pos == Find(s, c)
    IN  IF ~IsSome(pos) THEN << s >>
        ELSE << StrSlice(s, 0, Unwrap(pos)) >>
                 \o SplitOn(StrSlice(s, Unwrap(pos) + 1, Len(s)), c)

RECURSIVE TrimmedNonEmpty(_)
TrimmedNonEmpty(pieces) ==
    IF pieces = << >> THEN << >>
    ELSE LET x == Trim(Head(pieces))
         IN  (IF x = "" THEN << >> ELSE << x >>) \o TrimmedNonEmpty(Tail(pieces))

split_csvish(s) == TrimmedNonEmpty(SplitOn(s, ","))

\* Regex::captures(..).get(1) for the three patterns: the digits captured by
\* the leftmost match, as text

\* r"post-(\d+)"
RE_POST_ID(s) ==
    LET hits == { p \in 0..Len(s) :
                     OccursAt(s, "post-", p)
                         /\ DigitRunLen(StrSlice(s, p + 5, Len(s)), Len(s)) > 0 }
    IN  IF hits = {} THEN None
        ELSE LET from == SetMin(hits) + 5
             IN  Some(StrSlice(s, from, from + DigitRunLen(StrSlice(s, from, Len(s)), Len(s))))

\* offset of the first non-whitespace character at or after p
RECURSIVE SkipWhitespace(_, _)
SkipWhitespace(s, p) ==
    IF p < Len(s) /\ IsWhitespace(CharAt(s, p + 1)) THEN SkipWhitespace(s, p + 1) ELSE p

RELEASE_NO_MAX_DIGITS == 6

\* r"#\s*(\d{1,6})"
RE_RELEASE_NO(s) ==
    LET hits == { p \in 0..Len(s) :
                     OccursAt(s, "#", p)
                         /\ DigitRunLen(StrSlice(s, SkipWhitespace(s, p + 1), Len(s)), 1) > 0 }
    IN  IF hits = {} THEN None
        ELSE LET from == SkipWhitespace(s, SetMin(hits) + 1)
             IN  Some(StrSlice(s, from,
                      from + DigitRunLen(StrSlice(s, from, Len(s)), RELEASE_NO_MAX_DIGITS)))

\* r"(\d+)"
RE_FIRST_INT(s) ==
    LET hits == { p \in 0..Len(s) : DigitRunLen(StrSlice(s, p, Len(s)), 1) > 0 }
    IN  IF hits = {} THEN None
        ELSE LET from == SetMin(hits)
             IN  Some(StrSlice(s, from, from + DigitRunLen(StrSlice(s, from, Len(s)), Len(s))))

\* cap.get(1).and_then(|m| m.as_str().parse::<u64>().ok())
CapturedU64(cap) == IF IsSome(cap) THEN ParseU64(Unwrap(cap)) ELSE None

-----------------------------------------------------------------------------
(* Links and spoilers                                                      *)

\* characters that end the authority of a URL
AuthorityEnd == { "/", "?", "#", "\\" }

\* characters a host name may not hold
ForbiddenHost == { " ", "\t", "\n", "<", ">", "^", "|", "%", "[", "]" }

RECURSIVE AuthorityLen(_)
AuthorityLen(s) ==
    IF s = "" \/ CharAt(s, 1) \in AuthorityEnd THEN 0
    ELSE 1 + AuthorityLen(SubSeq(s, 2, Len(s)))

\* what follows "scheme://"
AfterScheme(h) == StrSlice(h, Unwrap(Find(h, "://")) + 3, Len(h))

Authority(after) == StrSlice(after, 0, AuthorityLen(after))

\* the authority without its user info (what follows the last "@")
HostPort(authority) ==
    LET ats == { p \in 0..Len(authority) : OccursAt(authority, "@", p) }
    IN  IF ats = {} THEN authority
        ELSE StrSlice(authority, (CHOOSE p \in ats : \A q \in ats : q <= p) + 1,
                      Len(authority))

\* the host without its port
HostName(hostport) ==
    LET colon == Find(hostport, ":")
    IN  IF IsSome(colon) THEN StrSlice(hostport, 0, Unwrap(colon)) ELSE hostport

CheckedHost(host) ==
    IF host = "" \/ \E i \in 1..Len(host) : CharAt(host, i) \in ForbiddenHost
    THEN None
    ELSE Some(to_ascii_lowercase(host))

\* Url::parse(href).ok().and_then(|u| u.host_str()) for an http or https href:
\* the host of the authority (user info and port dropped), lowercased; None
\* when the host is empty or holds a forbidden character
UrlHost(href) == CheckedHost(HostName(HostPort(Authority(AfterScheme(Trim(href))))))

\* the entry API used without the increment: or_insert(1) only
bump_domain_count_inserts_one(map, domain) ==
    IF domain \in DOMAIN map THEN map ELSE map @@ (domain :> 1)

bump_domain_count(map, domain) ==
    IF domain \in DOMAIN map THEN [map EXCEPT ![domain] = @ + 1]
    ELSE map @@ (domain :> 1)

\* if let Ok(url) = Url::parse(href) { if let Some(host) = url.host_str() { .. } }
count_host(out, host) == IF IsSome(host) THEN bump_domain_count(out, Unwrap(host)) ELSE out

\* the body of the for loop of extract_domain_counts for one href
count_href(out, href, href_l, ignore_magnet) ==
    IF ignore_magnet /\ StartsWith(href_l, "magnet:") THEN out
    ELSE IF ~(StartsWith(href_l, "http://") \/ StartsWith(href_l, "https://")) THEN out
    ELSE count_host(out, UrlHost(href))

count_anchor(out, href, ignore_magnet) ==
    IF ~IsSome(href) THEN out
    ELSE count_href(out, Unwrap(href), to_ascii_lowercase(Unwrap(href)), ignore_magnet)

RECURSIVE domain_counts_loop(_, _, _)
domain_counts_loop(anchors, ignore_magnet, out) ==
    IF anchors = << >> THEN out
    ELSE domain_counts_loop(Tail(anchors), ignore_magnet,
             count_anchor(out, Attr(Head(anchors), "href"), ignore_magnet))

extract_domain_counts(doc, ignore_magnet) ==
    domain_counts_loop(Select(doc.select, "a[href]"), ignore_magnet, << >>)

\* the loop body with the is_http test left out of the torrent condition
classify_link_any_scheme(acc, href, href_l, text, text_l) ==
    IF StartsWith(href_l, "magnet:")
    THEN [acc EXCEPT !.magnet_links = Append(@, href)]
    ELSE IF \/ Contains(href_l, ".torrent")
            \/ Contains(text_l, ".torrent")
            \/ Contains(text_l, "torrent file")
    THEN [acc EXCEPT !.torrent_file_links = Append(@, href),
                     !.torrent_file_names = IF text # "" THEN Append(@, text) ELSE @]
    ELSE acc

\* the body of the for loop of extract_torrent_and_magnet for one link
classify_link(acc, href, href_l, text, text_l) ==
    IF StartsWith(href_l, "magnet:")
    THEN [acc EXCEPT !.magnet_links = Append(@, href)]
    ELSE IF /\ StartsWith(href_l, "http://") \/ StartsWith(href_l, "https://")
            /\ \/ Contains(href_l, ".torrent")
               \/ Contains(text_l, ".torrent")
               \/ Contains(text_l, "torrent file")
    THEN [acc EXCEPT !.torrent_file_links = Append(@, href),
                     !.torrent_file_names = IF text # "" THEN Append(@, text) ELSE @]
    ELSE acc

classify_href(acc, href, text) ==
    classify_link(acc, href, to_ascii_lowercase(href), text, to_ascii_lowercase(text))

classify_anchor(acc, a) ==
    IF ~IsSome(Attr(a, "href")) THEN acc
    ELSE classify_href(acc, Trim(Unwrap(Attr(a, "href"))), ElementText(a))

RECURSIVE torrent_magnet_loop(_, _)
\* the for loop of extract_torrent_and_magnet: the three vectors before sorting
torrent_magnet_loop(anchors, acc) ==
    IF anchors = << >> THEN acc
    ELSE torrent_magnet_loop(Tail(anchors), classify_anchor(acc, Head(anchors)))

\* names.sort(); names.dedup(); and the same for the two link vectors
SortedDeduped(found) ==
    [torrent_file_names |-> Dedup(Sort(found.torrent_file_names)),
     torrent_file_links |-> Dedup(Sort(found.torrent_file_links)),
     magnet_links       |-> Dedup(Sort(found.magnet_links))]

extract_torrent_and_magnet(doc) ==
    SortedDeduped(torrent_magnet_loop(Select(doc.select, "a[href]"),
                      [torrent_file_names |-> << >>,
                       torrent_file_links |-> << >>,
                       magnet_links |-> << >>]))

\* the text of the first element `selector' matches inside sp, or ""
SubElementText(sp, selector) ==
    IF Select(sp.inner, selector) = << >> THEN ""
    ELSE ElementText(Select(sp.inner, selector)[1])

\* denylist.iter().any(|term| title_l.contains(&term.to_ascii_lowercase()))
Denied(title_l, denylist) ==
    \E i \in 1..Len(denylist) : Contains(title_l, to_ascii_lowercase(denylist[i]))

\* the loop body with the denylist looked up in the title and in the body
keep_spoiler_denies_body(out, denylist, title, text) ==
    IF \/ Denied(to_ascii_lowercase(title), denylist)
       \/ Denied(to_ascii_lowercase(text), denylist)
    THEN out
    ELSE IF title # "" /\ text # "" THEN Append(out, [title |-> title, text |-> text])
    ELSE out

\* the body of the for loop of extract_spoilers for one spoiler
keep_spoiler(out, denylist, title, text) ==
    IF Denied(to_ascii_lowercase(title), denylist) THEN out
    ELSE IF title # "" /\ text # "" THEN Append(out, [title |-> title, text |-> text])
    ELSE out

RECURSIVE spoilers_loop(_, _, _)
spoilers_loop(spoilers, denylist, out) ==
    IF spoilers = << >> THEN out
    ELSE spoilers_loop(Tail(spoilers), denylist,
             keep_spoiler(out, denylist,
                          SubElementText(Head(spoilers), "div.su-spoiler-title"),
                          SubElementText(Head(spoilers), "div.su-spoiler-content")))

extract_spoilers(doc, denylist) ==
    spoilers_loop(Select(doc.select, "div.entry-content div.su-spoiler"), denylist, << >>)

-----------------------------------------------------------------------------
(* The two extraction routines.  cfg is [scrape, links, profile], each a   *)
(* record of the fields the routines read.  A routine's output record is   *)
(* put together from the blocks it fills, in the order of the code.        *)

\* the page block with a copy-paste slip: canonical_url read under page_title
page_block_title_gates_canonical(doc, cfg) ==
    IF cfg.scrape.page_title \/ cfg.scrape.canonical_url \/ cfg.scrape.meta_tags
    THEN Some([title         |-> IF cfg.scrape.page_title
                                 THEN select_text(doc, "head > title") ELSE None,
               canonical_url |-> IF cfg.scrape.page_title
                                 THEN select_attr(doc, "link[rel='canonical']", "href")
                                 ELSE None,
               meta          |-> IF cfg.scrape.meta_tags
                                 THEN extract_meta_tags(doc) ELSE << >>])
    ELSE None

\* out.page as both routines build it
page_block(doc, cfg) ==
    IF cfg.scrape.page_title \/ cfg.scrape.canonical_url \/ cfg.scrape.meta_tags
    THEN Some([title         |-> IF cfg.scrape.page_title
                                 THEN select_text(doc, "head > title") ELSE None,
               canonical_url |-> IF cfg.scrape.canonical_url
                                 THEN select_attr(doc, "link[rel='canonical']", "href")
                                 ELSE None,
               meta          |-> IF cfg.scrape.meta_tags
                                 THEN extract_meta_tags(doc) ELSE << >>])
    ELSE None

RECURSIVE TagTokens(_)
\* the tokens with the prefix "tag-", the prefix stripped
TagTokens(tokens) ==
    IF tokens = << >> THEN << >>
    ELSE (IF StartsWith(Head(tokens), "tag-")
          THEN << StrSlice(Head(tokens), 4, Len(Head(tokens))) >> ELSE << >>)
             \o TagTokens(Tail(tokens))

\* if let Some(v) = o { f(v) } else { otherwise }
post_id_of(article) ==
    IF IsSome(article) THEN CapturedU64(RE_POST_ID(Unwrap(article))) ELSE None

wp_tags_of(class_attr) ==
    IF IsSome(class_attr)
    THEN Dedup(Sort(TagTokens(SplitWhitespace(Unwrap(class_attr)))))
    ELSE << >>

\* select_attr(..).or_else(|| select_text(..))
OrElse(first, second) == IF IsSome(first) THEN first ELSE second

comments_count_of(raw) ==
    IF IsSome(raw) THEN CapturedU64(RE_FIRST_INT(Unwrap(raw))) ELSE None

\* the PostMeta that parse_wordpress_release builds
post_block(doc, cfg) ==
    [post_id        |-> IF cfg.scrape.post_id
                        THEN post_id_of(select_attr(doc, "article[id^='post-']", "id"))
                        ELSE None,
     wp_tags        |-> IF cfg.scrape.wp_tags
                        THEN wp_tags_of(select_attr(doc, "article[id^='post-']", "class"))
                        ELSE << >>,
     categories     |-> IF cfg.scrape.categories
                        THEN select_all_text(doc, "span.cat-links a") ELSE << >>,
     entry_title    |-> IF cfg.scrape.entry_title
                        THEN select_text(doc, "h1.entry-title") ELSE None,
     entry_datetime |-> IF cfg.scrape.entry_datetime
                        THEN OrElse(select_attr(doc, "time.entry-date", "datetime"),
                                    select_text(doc, "time.entry-date"))
                        ELSE None,
     author         |-> IF cfg.scrape.author
                        THEN select_text(doc, "span.author a") ELSE None,
     comments_count |-> IF cfg.scrape.comments_count
                        THEN comments_count_of(select_text(doc, "span.tolstoycomments-cc"))
                        ELSE None]

release_number_of(h3) ==
    IF IsSome(h3) THEN CapturedU64(RE_RELEASE_NO(Unwrap(h3))) ELSE None

\* the release number read only inside the game_title_line branch
title_line_fields_number_needs_title(cfg, h3) ==
    [release_number  |-> IF cfg.scrape.release_number /\ cfg.scrape.game_title_line
                         THEN release_number_of(h3) ELSE None,
     game_title_line |-> IF cfg.scrape.game_title_line THEN h3 ELSE None]

\* release_number and game_title_line, from the first h3 of the content
title_line_fields(cfg, h3) ==
    [release_number  |-> IF cfg.scrape.release_number THEN release_number_of(h3) ELSE None,
     game_title_line |-> IF cfg.scrape.game_title_line THEN h3 ELSE None]

companies_of(value) == IF IsSome(value) THEN split_csvish(Unwrap(value)) ELSE << >>

NoParagraphFields ==
    [genres_tags       |-> << >>,
     companies         |-> << >>,
     languages_raw     |-> None,
     original_size_raw |-> None,
     repack_size_raw   |-> None]

\* the five fields with Companies cut at "Languages:" only
paragraph_fields_companies_to_languages(cfg, p_html, p_text) ==
    [genres_tags       |-> IF cfg.scrape.genres_tags
                           THEN extract_anchor_texts_from_fragment(p_html, "a[href*='/tag/']")
                           ELSE << >>,
     companies         |-> IF cfg.scrape.companies
                           THEN companies_of(capture_between_labels(p_text, "Companies:",
                                    << "Languages:" >>))
                           ELSE << >>,
     languages_raw     |-> IF cfg.scrape.languages
                           THEN capture_between_labels(p_text, "Languages:",
                                    << "Original Size:", "Repack Size:" >>)
                           ELSE None,
     original_size_raw |-> IF cfg.scrape.original_size
                           THEN capture_between_labels(p_text, "Original Size:",
                                    << "Repack Size:" >>)
                           ELSE None,
     repack_size_raw   |-> IF cfg.scrape.repack_size
                           THEN capture_between_labels(p_text, "Repack Size:", << >>)
                           ELSE None]

\* the five fields read from the Genres/Tags paragraph p_html, whose text is p_text
paragraph_fields(cfg, p_html, p_text) ==
    [genres_tags       |-> IF cfg.scrape.genres_tags
                           THEN extract_anchor_texts_from_fragment(p_html, "a[href*='/tag/']")
                           ELSE << >>,
     companies         |-> IF cfg.scrape.companies
                           THEN companies_of(capture_between_labels(p_text, "Companies:",
                                    << "Languages:", "Original Size:", "Repack Size:" >>))
                           ELSE << >>,
     languages_raw     |-> IF cfg.scrape.languages
                           THEN capture_between_labels(p_text, "Languages:",
                                    << "Original Size:", "Repack Size:" >>)
                           ELSE None,
     original_size_raw |-> IF cfg.scrape.original_size
                           THEN capture_between_labels(p_text, "Original Size:",
                                    << "Repack Size:" >>)
                           ELSE None,
     repack_size_raw   |-> IF cfg.scrape.repack_size
                           THEN capture_between_labels(p_text, "Repack Size:", << >>)
                           ELSE None]

\* if let Some(p_html) = find_first_paragraph_html_containing(..) { .. } else { warn!(..) }
found_paragraph_fields(cfg, found) ==
    IF IsSome(found)
    THEN paragraph_fields(cfg, Unwrap(found), normalize_ws(html_to_text(Unwrap(found))))
    ELSE NoParagraphFields

\* the ReleaseMeta that parse_wordpress_release builds
release_block(doc, cfg) ==
    title_line_fields(cfg, select_text(doc, "div.entry-content > h3"))
        @@ (IF \/ cfg.scrape.genres_tags
               \/ cfg.scrape.companies
               \/ cfg.scrape.languages
               \/ cfg.scrape.original_size
               \/ cfg.scrape.repack_size
            THEN found_paragraph_fields(cfg,
                     find_first_paragraph_html_containing(
                         doc, "div.entry-content p", "Genres/Tags:"))
            ELSE NoParagraphFields)

RECURSIVE FilterContainsLower(_, _)
\* titles whose ASCII-lowercased text contains needle
FilterContainsLower(titles, needle) ==
    IF titles = << >> THEN << >>
    ELSE (IF Contains(to_ascii_lowercase(Head(titles)), needle)
          THEN << Head(titles) >> ELSE << >>)
             \o FilterContainsLower(Tail(titles), needle)

\* the spoiler sections and download headings parse_wordpress_release adds
section_outputs(doc, cfg) ==
    [spoiler_sections |->
         IF cfg.scrape.spoiler_sections
         THEN extract_spoilers(doc, cfg.profile.spoiler_denylist) ELSE << >>,
     download_section_headings |->
         IF cfg.scrape.download_section_presence
         THEN FilterContainsLower(select_all_text(doc, "div.entry-content > h3"),
                                  "download mirrors")
         ELSE << >>]

\* the torrent outputs with the presence flag read from the list as it is
\* written to the record, after the torrent_file_link toggle
torrent_fields_flag_from_output(cfg, extracted) ==
    [torrent_file       |-> IF cfg.scrape.torrent_file
                            THEN Some(cfg.scrape.torrent_file_link
                                        /\ extracted.torrent_file_links # << >>)
                            ELSE None,
     torrent_file_names |-> IF cfg.scrape.torrent_file_name
                            THEN extracted.torrent_file_names ELSE << >>,
     torrent_file_links |-> IF cfg.scrape.torrent_file_link
                            THEN extracted.torrent_file_links ELSE << >>,
     magnet_links       |-> IF cfg.scrape.magnet
                            THEN extracted.magnet_links ELSE << >>]

\* the torrent and magnet outputs taken from `extracted'
torrent_fields(cfg, extracted) ==
    [torrent_file       |-> IF cfg.scrape.torrent_file
                            THEN Some(extracted.torrent_file_links # << >>) ELSE None,
     torrent_file_names |-> IF cfg.scrape.torrent_file_name
                            THEN extracted.torrent_file_names ELSE << >>,
     torrent_file_links |-> IF cfg.scrape.torrent_file_link
                            THEN extracted.torrent_file_links ELSE << >>,
     magnet_links       |-> IF cfg.scrape.magnet
                            THEN extracted.magnet_links ELSE << >>]

NoTorrentFields ==
    [torrent_file       |-> None,
     torrent_file_names |-> << >>,
     torrent_file_links |-> << >>,
     magnet_links       |-> << >>]

\* the link outputs both routines add to out
link_outputs(doc, cfg) ==
    [link_domain_counts |-> IF cfg.links.domain_counts
                            THEN extract_domain_counts(doc, cfg.links.ignore_magnet)
                            ELSE << >>]
        @@ (IF \/ cfg.scrape.torrent_file
               \/ cfg.scrape.torrent_file_name
               \/ cfg.scrape.torrent_file_link
               \/ cfg.scrape.magnet
            THEN torrent_fields(cfg, extract_torrent_and_magnet(doc))
            ELSE NoTorrentFields)

EmptySource == [path |-> "", bytes |-> 0, sha256 |-> ""]

parse_wordpress_release(html, cfg) ==
    [source  |-> EmptySource,
     site    |-> "wordpress_release",
     page    |-> page_block(html, cfg),
     post    |-> Some(post_block(html, cfg)),
     release |-> Some(release_block(html, cfg))]
        @@ section_outputs(html, cfg)
        @@ link_outputs(html, cfg)

\* the generic routine with the spoiler and heading extraction copied in
parse_generic_with_sections(html, cfg) ==
    [source  |-> EmptySource,
     site    |-> "generic",
     page    |-> page_block(html, cfg),
     post    |-> None,
     release |-> None]
        @@ section_outputs(html, cfg)
        @@ link_outputs(html, cfg)

parse_generic(html, cfg) ==
    [source  |-> EmptySource,
     site    |-> "generic",
     page    |-> page_block(html, cfg),
     post    |-> None,
     release |-> None,
     spoiler_sections          |-> << >>,
     download_section_headings |-> << >>]
        @@ link_outputs(html, cfg)

-----------------------------------------------------------------------------
(* parse_one and parse_many.  A file is [path, disk]: disk is what lies at *)
(* the path, [readable, id, len, utf8, html].                              *)

\* sha256_hex(&bytes): the digest is a function of the bytes alone
sha256_hex(disk) == "sha256:" \o disk.id

\* the site classification with the two marker tests joined by "or"
is_wp_release_either(html, cfg) ==
    /\ cfg.profile.wordpress_release_layout
    /\ (Contains(html.raw, "article id=\"post-") \/ Contains(html.raw, "entry-content"))

is_wp_release(html, cfg) ==
    /\ cfg.profile.wordpress_release_layout
    /\ Contains(html.raw, "article id=\"post-")
    /\ Contains(html.raw, "entry-content")

\* doc.source and doc.site as parse_one sets them after the routine returned
stamped(doc, file, wp) ==
    [doc EXCEPT !.source = [path   |-> file.path,
                            bytes  |-> file.disk.len,
                            sha256 |-> sha256_hex(file.disk)],
                !.site = IF wp THEN "wordpress_release" ELSE "generic"]

\* the routine chosen by is_wp_release
routed(html, cfg, wp) ==
    IF wp THEN parse_wordpress_release(html, cfg) ELSE parse_generic(html, cfg)

extract(file, cfg, wp) == stamped(routed(file.disk.html, cfg, wp), file, wp)

\* Ok(doc) is [ok |-> TRUE, doc |-> doc], Err(e) is [ok |-> FALSE, error |-> e]
\* with e the error chain as format!("{err:#}") prints it
parse_one(file, cfg) ==
    IF ~file.disk.readable
    THEN [ok |-> FALSE, error |-> "read " \o file.path \o ": No such file or directory"]
    ELSE IF ~file.disk.utf8
    THEN [ok |-> FALSE, error |-> "input is not valid UTF-8: invalid utf-8 sequence"]
    ELSE [ok |-> TRUE, doc |-> extract(file, cfg, is_wp_release(file.disk.html, cfg))]

\* the Stats parse_many computes after the loop
StatsOf(fs, ds, es) ==
    [input_count |-> Len(fs), parsed_ok |-> Len(ds), parsed_err |-> Len(es)]

\* env!("CARGO_PKG_NAME"), env!("CARGO_PKG_VERSION")
Tool == [name |-> "CARGO_PKG_NAME", version |-> "CARGO_PKG_VERSION"]

\* one iteration of the for loop of parse_many on the vectors docs and errs
pushed(file, r, ds, es) ==
    IF r.ok THEN [documents |-> Append(ds, r.doc), errors |-> es]
    ELSE [documents |-> ds,
          errors    |-> Append(es, [path |-> file.path, error |-> r.error])]

\* the read buffer kept across iterations and never cleared: the bytes of a
\* file are appended to those of the files read before it
reused_buffer(r, ds) ==
    IF r.ok /\ ds # << >>
    THEN [r EXCEPT !.doc.source.bytes = @ + ds[Len(ds)].source.bytes]
    ELSE r

loop_step_reused_buffer(file, cfg, ds, es) ==
    pushed(file, reused_buffer(parse_one(file, cfg), ds), ds, es)

loop_step(file, cfg, ds, es) == pushed(file, parse_one(file, cfg), ds, es)

RECURSIVE parse_many_loop(_, _, _)
parse_many_loop(fs, cfg, out) ==
    IF fs = << >> THEN out
    ELSE parse_many_loop(Tail(fs), cfg,
             loop_step(Head(fs), cfg, out.documents, out.errors))

\* the bundle parse_many returns after the loop
BundleOf(fs, ds, es) ==
    [tool      |-> Tool,
     stats     |-> StatsOf(fs, ds, es),
     documents |-> ds,
     errors    |-> es]

\* parse_many as a function of its arguments
returned(fs, out) == BundleOf(fs, out.documents, out.errors)

parse_many(fs, cfg) ==
    returned(fs, parse_many_loop(fs, cfg, [documents |-> << >>, errors |-> << >>]))

-----------------------------------------------------------------------------
(* Inputs: configurations and files                                        *)

ScrapeToggles ==
    { "page_title", "canonical_url", "meta_tags",
      "post_id", "categories", "wp_tags",
      "entry_title", "entry_datetime", "author", "comments_count",
      "release_number", "game_title_line", "genres_tags", "companies",
      "languages", "original_size", "repack_size",
      "spoiler_sections", "download_section_presence",
      "torrent_file", "torrent_file_name", "torrent_file_link", "magnet" }

LinkToggles == { "domain_counts", "ignore_magnet" }

\* the toggles that switch an output field on and off
FieldToggles == ScrapeToggles \cup { "domain_counts" }

PageToggles == { "page_title", "canonical_url", "meta_tags" }

PostToggles ==
    { "post_id", "categories", "wp_tags", "entry_title", "entry_datetime", "author",
      "comments_count" }

ReleaseToggles ==
    { "release_number", "game_title_line", "genres_tags", "companies", "languages",
      "original_size", "repack_size" }

\* ProfileConfig::default().spoiler_denylist
DefaultDenylist ==
    << "click to show direct links", "direct links", "magnet", "torrent" >>

\* the Config with exactly the toggles of `on' enabled
MkConfig(on, layout) ==
    [scrape  |-> [t \in ScrapeToggles |-> t \in on],
     links   |-> [t \in LinkToggles |-> t \in on],
     profile |-> [wordpress_release_layout |-> layout,
                  spoiler_denylist |-> DefaultDenylist]]

AllOn == ScrapeToggles \cup LinkToggles

\* the toggles enabled in cfg
Enabled(cfg) ==
    { t \in ScrapeToggles : cfg.scrape[t] } \cup { t \in LinkToggles : cfg.links[t] }

\* cfg with toggle t set to b
WithToggle(cfg, t, b) ==
    IF t \in ScrapeToggles THEN [cfg EXCEPT !.scrape[t] = b]
    ELSE [cfg EXCEPT !.links[t] = b]

Text(nodes) == [attrs |-> << >>, nodes |-> nodes, inner |-> << >>]

Anchor(href, nodes) == [attrs |-> [href |-> href], nodes |-> nodes, inner |-> << >>]

Spoiler(title, content) ==
    [attrs |-> << >>,
     nodes |-> << >>,
     inner |-> [sel \in { "div.su-spoiler-title", "div.su-spoiler-content" } |->
                   IF sel = "div.su-spoiler-title" THEN title ELSE content]]

\* a release post of the WordPress layout, with every element the routine reads
WpReleaseHtml ==
    [raw |-> "<article id=\"post-4821\" class=\"post tag-rpg tag-action\"><div class=\"entry-content\">",
     select |->
        [sel \in { "head > title", "link[rel='canonical']", "meta",
                   "article[id^='post-']", "span.cat-links a", "h1.entry-title",
                   "time.entry-date", "span.author a", "span.tolstoycomments-cc",
                   "div.entry-content > h3", "div.entry-content p",
                   "div.entry-content div.su-spoiler", "a[href]" } |->
            CASE sel = "head > title" -> << Text(<< " Game Name\n Repack " >>) >>
              [] sel = "link[rel='canonical']" ->
                    << [attrs |-> [rel |-> "canonical", href |-> "https://site.example/game/"],
                        nodes |-> << >>, inner |-> << >>] >>
              [] sel = "meta" ->
                    << [attrs |-> [property |-> "og:title", name |-> "title",
                                   content |-> "Game Name"],
                        nodes |-> << >>, inner |-> << >>],
                       [attrs |-> [name |-> "description", content |-> "A repack"],
                        nodes |-> << >>, inner |-> << >>],
                       [attrs |-> [property |-> "og:title", content |-> "Other"],
                        nodes |-> << >>, inner |-> << >>],
                       [attrs |-> [name |-> "viewport"],
                        nodes |-> << >>, inner |-> << >>],
                       [attrs |-> [content |-> "orphan"],
                        nodes |-> << >>, inner |-> << >>] >>
              [] sel = "article[id^='post-']" ->
                    << [attrs |-> [id |-> "post-4821",
                                   class |-> "post tag-rpg  tag-action tag-rpg"],
                        nodes |-> << >>, inner |-> << >>] >>
              [] sel = "span.cat-links a" ->
                    << Anchor("https://site.example/category/zeta/", << "Zeta" >>),
                       Anchor("https://site.example/category/alpha/", << "Alpha" >>),
                       Anchor("https://site.example/category/zeta/", << "Zeta" >>) >>
              [] sel = "h1.entry-title" -> << Text(<< "Game Name" >>) >>
              [] sel = "time.entry-date" ->
                    << [attrs |-> [datetime |-> "2024-01-02T03:04:05+00:00"],
                        nodes |-> << "January 2, 2024" >>, inner |-> << >>] >>
              [] sel = "span.author a" -> << Text(<< "FG" >>) >>
              [] sel = "span.tolstoycomments-cc" -> << Text(<< "12 Comments" >>) >>
              [] sel = "div.entry-content > h3" ->
                    << Text(<< "Release #123 - ", "Game Name" >>),
                       Text(<< "Download Mirrors" >>),
                       Text(<< "Screenshots" >>),
                       Text(<< "download mirrors (torrent)" >>) >>
              [] sel = "div.entry-content p" ->
                    << Text(<< "A short intro" >>),
                       [attrs |-> << >>,
                        nodes |-> << "Genres/Tags: ", "RPG", ", ", "Action", ", ", "RPG",
                                     "\nCompanies: Studio X, Studio Y\nLanguages: English\n",
                                     " Original Size: 4.2 GB\nRepack Size: 1.1 GB" >>,
                        inner |-> [q \in { "a[href*='/tag/']" } |->
                                      << Anchor("https://site.example/tag/rpg/", << "RPG" >>),
                                         Anchor("https://site.example/tag/action/", << "Action" >>),
                                         Anchor("https://site.example/tag/rpg/", << "RPG" >>) >>]],
                       Text(<< "Genres/Tags: later paragraph" >>) >>
              [] sel = "div.entry-content div.su-spoiler" ->
                    << Spoiler(<< Text(<< "Direct Links" >>) >>, << Text(<< "mirror list" >>) >>),
                       Spoiler(<< Text(<< "Screenshots" >>) >>, << Text(<< "direct links inside" >>) >>),
                       Spoiler(<< Text(<< " " >>) >>, << Text(<< "untitled" >>) >>),
                       Spoiler(<< Text(<< "Repack Features" >>) >>, << >>) >>
              [] sel = "a[href]" ->
                    << Anchor("https://site.example/tag/rpg/", << "RPG" >>),
                       Anchor("magnet:?xt=urn:btih:b", << "magnet" >>),
                       Anchor("https://host-a/file.torrent", << "game", ".torrent" >>),
                       Anchor("https://host-a/page", << "Mirror" >>),
                       Anchor("MAGNET:?xt=urn:btih:a", << "file.torrent" >>),
                       Anchor("https://Host-B:8080/dl", << "Torrent File" >>),
                       Anchor("https://host-a/file.torrent", << >>),
                       Anchor("http://", << "broken" >>),
                       Anchor("/local/file.torrent", << "local" >>) >>]]

\* both marker fragments occur in the text (one inside a comment) and the tree
\* holds none of the elements
WpBareHtml ==
    [raw |-> "<!-- article id=\"post- --><div class=\"entry-content\"></div>",
     select |->
        [sel \in { "div.entry-content > h3", "div.entry-content p" } |->
            CASE sel = "div.entry-content > h3" -> << Text(<< " " >>), Text(<< "No number #x" >>) >>
              [] sel = "div.entry-content p" -> << Text(<< "Genres: none" >>) >>]]

\* the content container without the article marker
EntryOnlyHtml ==
    [raw |-> "<title>List</title><div class=\"entry-content\">",
     select |->
        [sel \in { "head > title", "h1.entry-title", "div.entry-content > h3",
                   "div.entry-content div.su-spoiler", "a[href]" } |->
            CASE sel = "head > title" -> << Text(<< "List" >>) >>
              [] sel = "h1.entry-title" -> << Text(<< "A list" >>) >>
              [] sel = "div.entry-content > h3" -> << Text(<< "Download Mirrors" >>) >>
              [] sel = "div.entry-content div.su-spoiler" ->
                    << Spoiler(<< Text(<< "Notes" >>) >>, << Text(<< "text" >>) >>) >>
              [] sel = "a[href]" ->
                    << Anchor("https://host-c/b.torrent", << "b" >>),
                       Anchor("https://host-c/a.torrent", << "a" >>) >>]]

\* the article marker without the content container
ArticleOnlyHtml ==
    [raw |-> "<article id=\"post-77\" class=\"tag-x\">",
     select |->
        [sel \in { "article[id^='post-']", "link[rel='canonical']", "a[href]" } |->
            CASE sel = "article[id^='post-']" ->
                    << [attrs |-> [id |-> "post-77", class |-> "tag-x"],
                        nodes |-> << >>, inner |-> << >>] >>
              [] sel = "link[rel='canonical']" ->
                    << [attrs |-> [rel |-> "canonical"], nodes |-> << >>, inner |-> << >>] >>
              [] sel = "a[href]" -> << Anchor("magnet:?xt=urn:btih:c", << >>) >>]]

\* a page with neither marker
PlainHtml ==
    [raw |-> "<html><body>plain</body></html>", select |-> << >>]

HtmlDisk(id, html) ==
    [readable |-> TRUE, id |-> id, len |-> Len(html.raw), utf8 |-> TRUE, html |-> html]

\* std::fs::read fails
UnreadableDisk ==
    [readable |-> FALSE, id |-> "", len |-> 0, utf8 |-> FALSE, html |-> PlainHtml]

\* String::from_utf8 fails
BinaryDisk ==
    [readable |-> TRUE, id |-> "binary", len |-> 3, utf8 |-> FALSE, html |-> PlainHtml]

WpReleaseDisk == HtmlDisk("wp-release", WpReleaseHtml)

EntryOnlyDisk == HtmlDisk("entry-only", EntryOnlyHtml)

HtmlDisks ==
    { WpReleaseDisk, HtmlDisk("wp-bare", WpBareHtml), EntryOnlyDisk,
      HtmlDisk("article-only", ArticleOnlyHtml), HtmlDisk("plain", PlainHtml) }

\* the path of the i-th input: collect_html_inputs returns distinct paths in order
PathOf(i) == "in/" \o CharAt(Digits, i + 1) \o ".html"

\* the inputs whose disks are listed in `disks'
FilesOf(disks) == [i \in 1..Len(disks) |-> [path |-> PathOf(i), disk |-> disks[i]]]

RECURSIVE SeqsUpTo(_, _)
SeqsUpTo(S, n) ==
    IF n = 0 THEN { << >> }
    ELSE LET shorter == SeqsUpTo(S, n - 1)
         IN  shorter \cup { Append(q, x) : q \in shorter, x \in S }

-----------------------------------------------------------------------------
(* The batch runner as a state machine: one step per iteration of the for  *)
(* loop of parse_many, then the return.                                    *)

MaxFiles == 3

BatchDisks == { UnreadableDisk, BinaryDisk, WpReleaseDisk, EntryOnlyDisk }

BatchConfigs == { MkConfig(AllOn, TRUE), MkConfig(AllOn, FALSE), MkConfig({}, TRUE) }

PureIdle ==
    /\ call = << >>
    /\ rets = << >>
    /\ stdout = << >>

InitBatch(configs, inputs) ==
    /\ config \in configs
    /\ files \in inputs
    /\ idx = 0
    /\ docs = << >>
    /\ errs = << >>
    /\ attempts = [i \in 1..Len(files) |-> 0]
    /\ bundle = None
    /\ pc = "loop"
    /\ PureIdle

Init == InitBatch(BatchConfigs, { FilesOf(d) : d \in SeqsUpTo(BatchDisks, MaxFiles) })

\* the Err arm with the push left out: the failure is only logged
ParseErrDropped ==
    /\ pc = "loop"
    /\ idx < Len(files)
    /\ ~parse_one(files[idx + 1], config).ok
    /\ idx' = idx + 1
    /\ attempts' = [attempts EXCEPT ![idx + 1] = @ + 1]
    /\ UNCHANGED << config, files, docs, errs, bundle, pc, call, rets, stdout >>

\* the failure propagated with ? in place of the match: parse_many returns Err
ParseErrAborts ==
    /\ pc = "loop"
    /\ idx < Len(files)
    /\ ~parse_one(files[idx + 1], config).ok
    /\ pc' = "failed"
    /\ attempts' = [attempts EXCEPT ![idx + 1] = @ + 1]
    /\ UNCHANGED << config, files, idx, docs, errs, bundle, call, rets, stdout >>

\* the Ok arm inserting at the front of docs
ParseOkPrepends ==
    /\ pc = "loop"
    /\ idx < Len(files)
    /\ \E r \in { parse_one(files[idx + 1], config) } :
           r.ok /\ docs' = << r.doc >> \o docs
    /\ idx' = idx + 1
    /\ attempts' = [attempts EXCEPT ![idx + 1] = @ + 1]
    /\ UNCHANGED << config, files, errs, bundle, pc, call, rets, stdout >>

\* an iteration whose parse_one returns Ok: docs.push(doc)
ParseOk ==
    /\ pc = "loop"
    /\ idx < Len(files)
    /\ parse_one(files[idx + 1], config).ok
    /\ \E out \in { loop_step(files[idx + 1], config, docs, errs) } :
           docs' = out.documents /\ errs' = out.errors
    /\ idx' = idx + 1
    /\ attempts' = [attempts EXCEPT ![idx + 1] = @ + 1]
    /\ UNCHANGED << config, files, bundle, pc, call, rets, stdout >>

\* an iteration whose parse_one returns Err: errs.push(ParseError { .. })
ParseErr ==
    /\ pc = "loop"
    /\ idx < Len(files)
    /\ ~parse_one(files[idx + 1], config).ok
    /\ \E out \in { loop_step(files[idx + 1], config, docs, errs) } :
           docs' = out.documents /\ errs' = out.errors
    /\ idx' = idx + 1
    /\ attempts' = [attempts EXCEPT ![idx + 1] = @ + 1]
    /\ UNCHANGED << config, files, bundle, pc, call, rets, stdout >>

\* the loop is over: the stats are computed and the bundle returned
Return ==
    /\ pc = "loop"
    /\ idx = Len(files)
    /\ bundle' = Some(BundleOf(files, docs, errs))
    /\ pc' = "done"
    /\ UNCHANGED << config, files, idx, docs, errs, attempts, call, rets, stdout >>

Next == ParseOk \/ ParseErr \/ Return

Spec == Init /\ [][Next]_vars

\* one input, every configuration that differs from a base in at most one toggle
ToggleBases == { AllOn, {}, PageToggles, { "page_title", "post_id", "release_number" } }

ToggleConfigs ==
    { MkConfig(on, layout) :
        on \in UNION { { base, base \cup { t }, base \ { t } } :
                           base \in ToggleBases, t \in AllOn },
        layout \in BOOLEAN }

InitConfig ==
    InitBatch(ToggleConfigs,
              { FilesOf(<< d >>) : d \in HtmlDisks \cup { UnreadableDisk, BinaryDisk } })

SpecConfig == InitConfig /\ [][Next]_vars

-----------------------------------------------------------------------------
(* write_output, run on the bundle parse_many returned.  A line is written *)
(* by one step; a line of JSON is the value it serializes.                 *)

\* serde_json::to_string(doc): a document has no "type" member
DocLine(doc) == doc

\* json!({"type": "error", "data": err}).to_string()
ErrorLine(err) == [type |-> "error", data |-> err]

\* json!({"type": "summary", "data": &bundle.stats}).to_string()
SummaryLine(stats) == [type |-> "summary", data |-> stats]

\* serde_json::to_string(bundle) or to_string_pretty(bundle)
BundleJson(b, pretty_json) == [bundle |-> b, pretty |-> pretty_json]

\* main has run parse_many and calls write_output with the two flags
InitOutput ==
    /\ config = MkConfig(AllOn, TRUE)
    /\ files \in { FilesOf(d) : d \in SeqsUpTo(BatchDisks, MaxFiles) }
    /\ bundle = Some(parse_many(files, config))
    /\ docs = Unwrap(bundle).documents
    /\ errs = Unwrap(bundle).errors
    /\ idx = Len(files)
    /\ attempts = [i \in 1..Len(files) |-> 1]
    /\ pc = "write_output"
    /\ call \in [pretty_json : BOOLEAN, ndjson : BOOLEAN]
    /\ rets = << >>
    /\ stdout = << >>

\* the summary written only after an error line: a batch without errors ends
\* with its last document
WriteSummaryAfterErrors ==
    /\ pc = "write_output"
    /\ call.ndjson
    /\ Len(stdout) = Len(Unwrap(bundle).documents) + Len(Unwrap(bundle).errors)
    /\ stdout' = IF Unwrap(bundle).errors # << >>
                 THEN Append(stdout, SummaryLine(Unwrap(bundle).stats))
                 ELSE stdout
    /\ pc' = "written"
    /\ UNCHANGED << batchVars, call, rets >>

\* for doc in &bundle.documents: one line per document
WriteDoc ==
    /\ pc = "write_output"
    /\ call.ndjson
    /\ Len(stdout) < Len(Unwrap(bundle).documents)
    /\ stdout' = Append(stdout, DocLine(Unwrap(bundle).documents[Len(stdout) + 1]))
    /\ UNCHANGED << batchVars, pc, call, rets >>

\* for err in &bundle.errors: one line per error, after the documents
WriteErr ==
    /\ pc = "write_output"
    /\ call.ndjson
    /\ Len(stdout) >= Len(Unwrap(bundle).documents)
    /\ Len(stdout) < Len(Unwrap(bundle).documents) + Len(Unwrap(bundle).errors)
    /\ stdout' = Append(stdout,
           ErrorLine(Unwrap(bundle).errors[Len(stdout) - Len(Unwrap(bundle).documents) + 1]))
    /\ UNCHANGED << batchVars, pc, call, rets >>

\* the summary line, then return Ok(())
WriteSummary ==
    /\ pc = "write_output"
    /\ call.ndjson
    /\ Len(stdout) = Len(Unwrap(bundle).documents) + Len(Unwrap(bundle).errors)
    /\ stdout' = Append(stdout, SummaryLine(Unwrap(bundle).stats))
    /\ pc' = "written"
    /\ UNCHANGED << batchVars, call, rets >>

\* not ndjson: the whole bundle as one JSON value
WriteJson ==
    /\ pc = "write_output"
    /\ ~call.ndjson
    /\ stdout' = Append(stdout, BundleJson(Unwrap(bundle), call.pretty_json))
    /\ pc' = "written"
    /\ UNCHANGED << batchVars, call, rets >>

NextOutput == WriteDoc \/ WriteErr \/ WriteSummary \/ WriteJson

SpecOutput == InitOutput /\ [][NextOutput]_vars

-----------------------------------------------------------------------------
(* The pure functions on their own: the arguments are drawn in Init, an    *)
(* action applies the function and records what it returned.               *)

MaxStrLen == 5

MaxTextLen == 5

MaxNextLabels == 2

NormAlphabet == { "a", " ", "\t" }

SegAlphabet == { "a", "b", " " }

SegLabels == { "a", "b", "ab", "b " }

\* the batch runner is not running
BatchIdle ==
    /\ config = << >>
    /\ files = << >>
    /\ idx = 0
    /\ docs = << >>
    /\ errs = << >>
    /\ attempts = << >>
    /\ bundle = None
    /\ stdout = << >>

InitNormalize ==
    /\ BatchIdle
    /\ pc = "normalize_ws"
    /\ call \in { [s |-> x] : x \in StringsUpTo(NormAlphabet, MaxStrLen) }
    /\ rets = << >>

\* normalize_ws applied to the input, then to its own result
ApplyNormalize ==
    /\ pc = "normalize_ws"
    /\ Len(rets) < 2
    /\ rets' = Append(rets, normalize_ws(IF rets = << >> THEN call.s ELSE rets[Len(rets)]))
    /\ UNCHANGED << batchVars, pc, call, stdout >>

NextNormalize == ApplyNormalize

SpecNormalize == InitNormalize /\ [][NextNormalize]_vars

InitSegment ==
    /\ BatchIdle
    /\ pc = "capture_between_labels"
    /\ call \in { [text |-> t, label |-> l, next_labels |-> n] :
                     t \in StringsUpTo(SegAlphabet, MaxTextLen),
                     l \in SegLabels,
                     n \in DistinctSeqsUpTo(SegLabels, MaxNextLabels) }
    /\ rets = << >>

ApplyCapture ==
    /\ pc = "capture_between_labels"
    /\ rets = << >>
    /\ rets' = << capture_between_labels(call.text, call.label, call.next_labels) >>
    /\ UNCHANGED << batchVars, pc, call, stdout >>

\* the same call with next_labels listed in another order
ApplyCaptureReordered ==
    /\ pc = "capture_between_labels"
    /\ Len(rets) = 1
    /\ \E p \in Permutations(1..Len(call.next_labels)) :
           LET reordered == [i \in 1..Len(call.next_labels) |-> call.next_labels[p[i]]]
           IN  rets' = Append(rets,
                   capture_between_labels(call.text, call.label, reordered))
    /\ UNCHANGED << batchVars, pc, call, stdout >>

NextSegment == ApplyCapture \/ ApplyCaptureReordered

SpecSegment == InitSegment /\ [][NextSegment]_vars

MaxSpoilers == 2

\* the title elements a spoiler may hold: none, a blank one, and texts that
\* need normalizing and lowercasing before they meet the denylist
SpoilerTitles ==
    { << >>, << Text(<< " " >>) >>, << Text(<< "Screenshots" >>) >>,
      << Text(<< " Direct", "Links " >>) >> }

SpoilerContents ==
    { << >>, << Text(<< " shots \t here" >>) >>, << Text(<< "direct links inside" >>) >> }

SpoilerPool == { Spoiler(t, c) : t \in SpoilerTitles, c \in SpoilerContents }

SpoilerDenylists == { DefaultDenylist, << >>, << "Direct Links" >> }

\* a document whose content container holds these spoilers, in this order
SpoilerDoc(spoilers) ==
    [raw |-> "", select |-> [sel \in { "div.entry-content div.su-spoiler" } |-> spoilers]]

InitSpoilers ==
    /\ BatchIdle
    /\ pc = "extract_spoilers"
    /\ call \in { [spoilers |-> sp, denylist |-> d] :
                     sp \in SeqsUpTo(SpoilerPool, MaxSpoilers),
                     d \in SpoilerDenylists }
    /\ rets = << >>

ApplySpoilers ==
    /\ pc = "extract_spoilers"
    /\ rets = << >>
    /\ rets' = << extract_spoilers(SpoilerDoc(call.spoilers), call.denylist) >>
    /\ UNCHANGED << batchVars, pc, call, stdout >>

NextSpoilers == ApplySpoilers

SpecSpoilers == InitSpoilers /\ [][NextSpoilers]_vars

MaxLinks == 3

\* the a elements a document may hold: a magnet link in upper case with
\* .torrent in its target and in its text, torrent links by target and by
\* text, a plain page link, a link of another scheme, a link whose host does
\* not parse, and an a element without href
LinkPool ==
    { Anchor("MAGNET:?b.torrent", << "x.torrent" >>),
      Anchor("https://host-a/file.torrent", << >>),
      Anchor("https://host-a/page", << " the", "page " >>),
      Anchor("HTTPS://Host-B:8080/dl ", << "Torrent  File" >>),
      Anchor("ftp://host-c/f.torrent", << "f.torrent" >>),
      Anchor("https://ho st/a", << "a.TORRENT" >>),
      Text(<< "torrent file" >>) }

\* a document holding these a elements, in this order
LinkDoc(anchors) ==
    [raw |-> "",
     select |-> [sel \in { "a[href]" } |->
                    SelectSeq(anchors, LAMBDA a : IsSome(Attr(a, "href")))]]

InitLinks ==
    /\ BatchIdle
    /\ pc = "links"
    /\ call \in { [anchors |-> l] : l \in SeqsUpTo(LinkPool, MaxLinks) }
    /\ rets = << >>

\* extract_domain_counts, first with ignore_magnet on, then with it off
ApplyDomainCounts ==
    /\ pc = "links"
    /\ Len(rets) < 2
    /\ rets' = Append(rets, extract_domain_counts(LinkDoc(call.anchors), rets = << >>))
    /\ UNCHANGED << batchVars, pc, call, stdout >>

ApplyTorrentMagnet ==
    /\ pc = "links"
    /\ Len(rets) = 2
    /\ rets' = Append(rets, extract_torrent_and_magnet(LinkDoc(call.anchors)))
    /\ UNCHANGED << batchVars, pc, call, stdout >>

NextLinks == ApplyDomainCounts \/ ApplyTorrentMagnet

SpecLinks == InitLinks /\ [][NextLinks]_vars

MarkerLabels == { "Companies:", "Languages:", "Original Size:", "Repack Size:" }

\* the values written after Companies: in the paragraph
CompanyValues == { "Studio X, Studio Y", " ,A,, B ,", "" }

\* the text node of one labelled value, on a line of its own
MarkerNode(label, companies) ==
    "\n " \o label \o " " \o
        (CASE label = "Companies:"     -> companies
           [] label = "Languages:"     -> "English"
           [] label = "Original Size:" -> "4.2 GB"
           [] label = "Repack Size:"   -> "1.1 GB")

\* a paragraph that opens with the Genres/Tags marker and two tag links and
\* goes on with the values of `labels', in that order
MarkerParagraph(labels, companies) ==
    [attrs |-> << >>,
     nodes |-> << "Genres/Tags: Action, RPG" >>
                  \o [i \in 1..Len(labels) |-> MarkerNode(labels[i], companies)],
     inner |-> [q \in { "a[href*='/tag/']" } |->
                   << Anchor("/tag/rpg/", << "RPG" >>), Anchor("/tag/action/", << "Action" >>) >>]]

\* the paragraphs of the content container: the marker paragraph alone, or
\* after a paragraph without the marker and before a later one with it
ParagraphLists ==
    { << >>, << Text(<< "An intro" >>) >> }
        \cup { << p >> : p \in { MarkerParagraph(l, c) :
                   l \in DistinctSeqsUpTo(MarkerLabels, Cardinality(MarkerLabels)),
                   c \in CompanyValues } }
        \cup { << Text(<< "An intro" >>), MarkerParagraph(l, "Studio X, Studio Y"),
                  Text(<< "Genres/Tags: none Companies: Late" >>) >> :
                   l \in DistinctSeqsUpTo(MarkerLabels, Cardinality(MarkerLabels)) }

\* a release post whose content container holds these paragraphs
ParagraphDoc(paragraphs) ==
    [raw |-> "<article id=\"post-1\"><div class=\"entry-content\">",
     select |-> [sel \in { "div.entry-content p" } |-> paragraphs]]

InitParagraph ==
    /\ BatchIdle
    /\ pc = "parse_wordpress_release"
    /\ call \in { [paragraphs |-> ps] : ps \in ParagraphLists }
    /\ rets = << >>

\* the routine under the default configuration; rets holds the document of Ok(out)
ApplyWordpressRelease ==
    /\ pc = "parse_wordpress_release"
    /\ rets = << >>
    /\ rets' = << parse_wordpress_release(ParagraphDoc(call.paragraphs),
                                          MkConfig(AllOn, TRUE)) >>
    /\ UNCHANGED << batchVars, pc, call, stdout >>

NextParagraph == ApplyWordpressRelease

SpecParagraph == InitParagraph /\ [][NextParagraph]_vars

MaxTitleLen == 4

TitleAlphabet == { "#", " ", "7", "a" }

\* the h3 elements directly inside the content container: none, one with a
\* short text over TitleAlphabet, the heading of a release post, or a heading
\* whose number is longer than six digits
TitleHeadings ==
    { << >> }
        \cup { << Text(<< t >>) >> :
                 t \in StringsUpTo(TitleAlphabet, MaxTitleLen)
                          \cup { "Release #123 - Game Name", "No. #1234567" } }

\* a release post with these h3 elements
TitleDoc(headings) ==
    [raw |-> "<article id=\"post-4821\"><div class=\"entry-content\">",
     select |-> [sel \in { "div.entry-content > h3", "article[id^='post-']" } |->
                    IF sel = "div.entry-content > h3" THEN headings
                    ELSE << [attrs |-> [id |-> "post-4821"], nodes |-> << >>,
                             inner |-> << >>] >>]]

InitTitle ==
    /\ BatchIdle
    /\ pc = "release_number"
    /\ call \in { [headings |-> h, game_title_line |-> g] :
                     h \in TitleHeadings, g \in BOOLEAN }
    /\ rets = << >>

\* parse_wordpress_release with every toggle on, but game_title_line as called
ApplyTitleLine ==
    /\ pc = "release_number"
    /\ rets = << >>
    /\ rets' = << parse_wordpress_release(
                     TitleDoc(call.headings),
                     WithToggle(MkConfig(AllOn, TRUE), "game_title_line",
                                call.game_title_line)) >>
    /\ UNCHANGED << batchVars, pc, call, stdout >>

NextTitle == ApplyTitleLine

SpecTitle == InitTitle /\ [][NextTitle]_vars

-----------------------------------------------------------------------------
(* Claims about parse_many                                                 *)

\* the number of entries of `entries' that f maps to path
CountFor(entries, F(_), path) ==
    Cardinality({ i \in 1..Len(entries) : F(entries[i]) = path })

DocPath(doc) == doc.source.path

ErrPath(err) == err.path

\* the position of the input with this path
InputIndex(path) == CHOOSE k \in 1..Len(files) : files[k].path = path

\* C1: every input path is attempted exactly once and ends in exactly one
\* terminal state, one document or one path+message error; the paths not yet
\* reached have neither; on return input_count is the number of inputs,
\* parsed_ok the length of documents, parsed_err the length of errors, and
\* parsed_ok + parsed_err = input_count.
C1_EveryPathOneTerminalState ==
    /\ \A i \in 1..Len(files) :
          /\ attempts[i] = IF i <= idx THEN 1 ELSE 0
          /\ CountFor(docs, DocPath, files[i].path)
               + CountFor(errs, ErrPath, files[i].path)
                 = IF i <= idx THEN 1 ELSE 0
    /\ Len(docs) + Len(errs) = idx
    /\ \A i \in 1..Len(errs) : errs[i].error # ""
    /\ pc = "done" =>
          /\ idx = Len(files)
          /\ IsSome(bundle)
          /\ Unwrap(bundle).documents = docs
          /\ Unwrap(bundle).errors = errs
          /\ Unwrap(bundle).stats.input_count = Len(files)
          /\ Unwrap(bundle).stats.parsed_ok = Len(Unwrap(bundle).documents)
          /\ Unwrap(bundle).stats.parsed_err = Len(Unwrap(bundle).errors)
          /\ Unwrap(bundle).stats.parsed_ok + Unwrap(bundle).stats.parsed_err
                = Unwrap(bundle).stats.input_count

C1_Witness ==
    /\ pc = "done"
    /\ Len(files) = MaxFiles
    /\ Unwrap(bundle).stats.parsed_ok > 0
    /\ Unwrap(bundle).stats.parsed_err > 0

\* a file that cannot be read, or whose bytes are not UTF-8 text
Failing(file) == ~file.disk.readable \/ ~file.disk.utf8

NotFailing(file) == ~Failing(file)

\* C2: a failing file never aborts the batch: the run is never left in a
\* failed state, every failing file reached so far has no document and exactly
\* one error entry carrying its path, and the returned documents are the ones
\* parse_many returns for the same list with the failing files taken out,
\* while the returned errors are those of the failing files only.
C2_FailureNeverAborts ==
    /\ pc # "failed"
    /\ \A i \in 1..idx :
          Failing(files[i]) =>
             /\ CountFor(docs, DocPath, files[i].path) = 0
             /\ CountFor(errs, ErrPath, files[i].path) = 1
    /\ pc = "done" =>
          /\ IsSome(bundle)
          /\ Unwrap(bundle).documents
                = parse_many(SelectSeq(files, NotFailing), config).documents
          /\ parse_many(SelectSeq(files, NotFailing), config).errors = << >>
          /\ [i \in 1..Len(Unwrap(bundle).errors) |-> Unwrap(bundle).errors[i].path]
                = [i \in 1..Len(SelectSeq(files, Failing)) |->
                      SelectSeq(files, Failing)[i].path]

C2_Witness ==
    /\ pc = "done"
    /\ Len(files) = 3
    /\ ~files[1].disk.readable
    /\ NotFailing(files[2])
    /\ files[3].disk.readable /\ ~files[3].disk.utf8
    /\ Len(Unwrap(bundle).documents) = 1
    /\ Len(Unwrap(bundle).errors) = 2

\* C3: documents and errors keep the input enumeration order: of two entries
\* of either list the earlier one belongs to the earlier input, and on return
\* the documents are exactly the inputs that parsed and the errors exactly the
\* inputs that failed.
C3_OutputOrderIsInputOrder ==
    /\ \A i, j \in 1..Len(docs) :
          i < j => InputIndex(docs[i].source.path) < InputIndex(docs[j].source.path)
    /\ \A i, j \in 1..Len(errs) :
          i < j => InputIndex(errs[i].path) < InputIndex(errs[j].path)
    /\ pc = "done" =>
          /\ [i \in 1..Len(Unwrap(bundle).documents) |->
                 Unwrap(bundle).documents[i].source.path]
                = [i \in 1..Len(SelectSeq(files, NotFailing)) |->
                      SelectSeq(files, NotFailing)[i].path]
          /\ [i \in 1..Len(Unwrap(bundle).errors) |-> Unwrap(bundle).errors[i].path]
                = [i \in 1..Len(SelectSeq(files, Failing)) |->
                      SelectSeq(files, Failing)[i].path]

C3_Witness ==
    /\ pc = "done"
    /\ Len(files) = 3
    /\ NotFailing(files[1])
    /\ Failing(files[2])
    /\ NotFailing(files[3])
    /\ files[1].disk # files[3].disk
    /\ Len(Unwrap(bundle).documents) = 2

-----------------------------------------------------------------------------
(* Claims about the record a routine builds                                *)

\* C4: in every document a grouped field (page, post, release) is present
\* only if at least one member toggle of its group is enabled.
C4_GroupOnlyIfMemberToggleOn ==
    \A i \in 1..Len(docs) :
        /\ IsSome(docs[i].page) => Enabled(config) \cap PageToggles # {}
        /\ IsSome(docs[i].post) => Enabled(config) \cap PostToggles # {}
        /\ IsSome(docs[i].release) => Enabled(config) \cap ReleaseToggles # {}

\* the member m of the group, or `absent' when the group is not there
Member(group, m, absent) == IF IsSome(group) THEN Unwrap(group)[m] ELSE absent

\* the output fields of a document, each under the toggle that controls it
FieldsByToggle(doc) ==
    [t \in FieldToggles |->
        CASE t = "page_title"        -> Member(doc.page, "title", None)
          [] t = "canonical_url"     -> Member(doc.page, "canonical_url", None)
          [] t = "meta_tags"         -> Member(doc.page, "meta", << >>)
          [] t = "post_id"           -> Member(doc.post, "post_id", None)
          [] t = "categories"        -> Member(doc.post, "categories", << >>)
          [] t = "wp_tags"           -> Member(doc.post, "wp_tags", << >>)
          [] t = "entry_title"       -> Member(doc.post, "entry_title", None)
          [] t = "entry_datetime"    -> Member(doc.post, "entry_datetime", None)
          [] t = "author"            -> Member(doc.post, "author", None)
          [] t = "comments_count"    -> Member(doc.post, "comments_count", None)
          [] t = "release_number"    -> Member(doc.release, "release_number", None)
          [] t = "game_title_line"   -> Member(doc.release, "game_title_line", None)
          [] t = "genres_tags"       -> Member(doc.release, "genres_tags", << >>)
          [] t = "companies"         -> Member(doc.release, "companies", << >>)
          [] t = "languages"         -> Member(doc.release, "languages_raw", None)
          [] t = "original_size"     -> Member(doc.release, "original_size_raw", None)
          [] t = "repack_size"       -> Member(doc.release, "repack_size_raw", None)
          [] t = "spoiler_sections"  -> doc.spoiler_sections
          [] t = "download_section_presence" -> doc.download_section_headings
          [] t = "torrent_file"      -> doc.torrent_file
          [] t = "torrent_file_name" -> doc.torrent_file_names
          [] t = "torrent_file_link" -> doc.torrent_file_links
          [] t = "magnet"            -> doc.magnet_links
          [] t = "domain_counts"     -> doc.link_domain_counts]

\* None, the empty vector and the empty map are all the empty tuple: a field
\* holding it is left out of the serialized record
Absent(value) == value = << >>

\* what toggle t, switched off, does to the document `on': the fields of t
\* are gone and every other field is as it was; the page group, which exists
\* under its member toggles, may only go when t is one of them
ExactFrame(on, off, t) ==
    /\ Absent(FieldsByToggle(off)[t])
    /\ \A u \in FieldToggles \ { t } : FieldsByToggle(off)[u] = FieldsByToggle(on)[u]
    /\ off.source = on.source
    /\ off.site = on.site
    /\ IsSome(off.post) = IsSome(on.post)
    /\ IsSome(off.release) = IsSome(on.release)
    /\ t \notin PageToggles => IsSome(off.page) = IsSome(on.page)

SortedNoRepeat(v) == \A i \in 1..(Len(v) - 1) : StrLess(v[i], v[i + 1])

\* C6: in every document the genre, tag, category, torrent-name, torrent-link
\* and magnet-link lists are sorted ascending and hold no element twice.
C6_ListsSortedNoRepeat ==
    \A i \in 1..Len(docs) :
        /\ SortedNoRepeat(Member(docs[i].release, "genres_tags", << >>))
        /\ SortedNoRepeat(Member(docs[i].post, "wp_tags", << >>))
        /\ SortedNoRepeat(Member(docs[i].post, "categories", << >>))
        /\ SortedNoRepeat(docs[i].torrent_file_names)
        /\ SortedNoRepeat(docs[i].torrent_file_links)
        /\ SortedNoRepeat(docs[i].magnet_links)

\* the variant the site classification names for this raw text
Classification(raw, cfg) ==
    IF ~cfg.profile.wordpress_release_layout THEN "generic"
    ELSE IF Contains(raw, "article id=\"post-") /\ Contains(raw, "entry-content")
    THEN "wordpress_release"
    ELSE "generic"

\* doc with the two members parse_one writes put back to what a routine leaves
Unstamped(doc, site) == [doc EXCEPT !.source = EmptySource, !.site = site]

\* C7: the site tag of a document is generic when layout detection is off,
\* and otherwise wordpress_release exactly when the raw text holds both
\* fragments; the document is the output of the routine of that variant.
C7_SiteIsClassification ==
    \A i \in 1..Len(docs) :
        LET html == files[InputIndex(docs[i].source.path)].disk.html
        IN  /\ docs[i].site = Classification(html.raw, config)
            /\ docs[i].site = "wordpress_release" =>
                  Unstamped(docs[i], "wordpress_release")
                      = parse_wordpress_release(html, config)
            /\ docs[i].site = "generic" =>
                  Unstamped(docs[i], "generic") = parse_generic(html, config)
            /\ docs[i].site \in { "wordpress_release", "generic" }

C7_Witness ==
    /\ Len(docs) = 1
    /\ config.profile.wordpress_release_layout
    /\ docs[1].site = "wordpress_release"
    /\ IsSome(docs[1].post)

-----------------------------------------------------------------------------
(* Claims about normalize_ws                                               *)

\* the output has no leading, trailing or doubled whitespace, and its only
\* whitespace character is the single space between two words
IsNormalized(s) ==
    /\ s = "" \/ (~IsWhitespace(CharAt(s, 1)) /\ ~IsWhitespace(CharAt(s, Len(s))))
    /\ \A i \in 1..Len(s) : IsWhitespace(CharAt(s, i)) => CharAt(s, i) = " "
    /\ \A i \in 1..(Len(s) - 1) :
           ~(IsWhitespace(CharAt(s, i)) /\ IsWhitespace(CharAt(s, i + 1)))

\* C10: normalize_ws is idempotent (the second application returns what the
\* first returned) and its output never starts or ends with whitespace and
\* never holds two consecutive whitespace characters.
C10_NormalizeIdempotentClean ==
    pc = "normalize_ws" =>
        /\ \A i \in 1..Len(rets) : IsNormalized(rets[i])
        /\ Len(rets) = 2 => rets[2] = rets[1]

\* an input with leading whitespace and an inner run of two whitespace
\* characters, normalized twice
C10_Witness ==
    /\ pc = "normalize_ws"
    /\ Len(rets) = 2
    /\ call.s = " a\t a"
    /\ rets[1] = "a a"

-----------------------------------------------------------------------------
(* Claims about capture_between_labels                                     *)

\* the segment the specification describes, stated on positions of text
SegmentOf(text, label, next_labels) ==
    LET occ == { p \in 0..Len(text) : OccursAt(text, label, p) }
    IN  IF occ = {} THEN None
        ELSE LET start == SetMin(occ) + Len(label)
                 stops == { e \in start..Len(text) :
                               \E n \in Range(next_labels) : OccursAt(text, n, e) }
                 end   == IF stops = {} THEN Len(text) ELSE SetMin(stops)
                 value == Trim(StrSlice(text, start, end))
             IN  IF value = "" THEN None ELSE Some(value)

\* C8: capture_between_labels returns the trimmed text between the end of the
\* first occurrence of label and the nearest first occurrence of a next label
\* at or after it (the end of text if there is none), absent if label does not
\* occur or that text is blank; the order of next_labels does not matter.
C8_SegmentIsNearestLabel ==
    pc = "capture_between_labels" =>
        \A i \in 1..Len(rets) :
            rets[i] = SegmentOf(call.text, call.label, call.next_labels)

\* two next labels occur after the label, the later one listed first
C8_Witness ==
    /\ pc = "capture_between_labels"
    /\ Len(rets) = 2
    /\ call.text = "b aab"
    /\ call.label = "b"
    /\ call.next_labels = << "b", "ab" >>
    /\ rets = << Some("a"), Some("a") >>

\* C9: a value is returned only if label occurs in text, and the value holds
\* no next label as a substring.
C9_SegmentHoldsNoNextLabel ==
    pc = "capture_between_labels" =>
        \A i \in 1..Len(rets) :
            IsSome(rets[i]) =>
                /\ Contains(call.text, call.label)
                /\ \A n \in Range(call.next_labels) : ~Contains(Unwrap(rets[i]), n)

\* a value cut short by the nearer of two next labels
C9_Witness ==
    /\ pc = "capture_between_labels"
    /\ Len(rets) = 1
    /\ call.text = "baab"
    /\ call.label = "b"
    /\ call.next_labels = << "b ", "ab" >>
    /\ rets[1] = Some("a")

-----------------------------------------------------------------------------
(* Claims about extract_spoilers                                           *)

\* the normalized text of the first element of `elements', "" if there is none
NormalizedFirst(elements) ==
    IF elements = << >> THEN "" ELSE normalize_ws(Join(elements[1].nodes, " "))

SpoilerTitle(sp) == NormalizedFirst(sp.inner["div.su-spoiler-title"])

SpoilerBody(sp) == NormalizedFirst(sp.inner["div.su-spoiler-content"])

\* some term of the denylist of the call is, case aside, a substring of s
HoldsDenylistTerm(s) ==
    \E term \in Range(call.denylist) :
        Contains(to_ascii_lowercase(s), to_ascii_lowercase(term))

\* the spoiler is one the claim keeps
KeptSpoiler(sp) ==
    /\ SpoilerTitle(sp) # ""
    /\ SpoilerBody(sp) # ""
    /\ ~HoldsDenylistTerm(SpoilerTitle(sp))

\* C11: the spoilers returned are, in document order, exactly the blocks with
\* a non-empty normalized title, a non-empty normalized content and a title
\* that holds no denylist term (case aside); the body plays no part in the
\* denylist match.
C11_SpoilerKeptIffTitleAllowed ==
    pc = "extract_spoilers" =>
        \A i \in 1..Len(rets) :
            rets[i] = [k \in 1..Len(SelectSeq(call.spoilers, KeptSpoiler)) |->
                          [title |-> SpoilerTitle(SelectSeq(call.spoilers, KeptSpoiler)[k]),
                           text  |-> SpoilerBody(SelectSeq(call.spoilers, KeptSpoiler)[k])]]

\* a block with the title "Direct Links" is dropped under the default
\* denylist, and the block after it, whose body alone names direct links, kept
C11_Witness ==
    /\ pc = "extract_spoilers"
    /\ call.denylist = DefaultDenylist
    /\ Len(call.spoilers) = 2
    /\ SpoilerTitle(call.spoilers[1]) = "Direct Links"
    /\ SpoilerBody(call.spoilers[1]) = "shots here"
    /\ rets = << << [title |-> "Screenshots", text |-> "direct links inside"] >> >>

-----------------------------------------------------------------------------
(* Claims about the links of a document                                    *)

\* the host an a element counts for: that of its target, when the target is
\* an http or https URL that parses
CountedHost(a) ==
    IF ~IsSome(Attr(a, "href")) THEN None
    ELSE IF ~(\/ StartsWith(to_ascii_lowercase(Unwrap(Attr(a, "href"))), "http://")
              \/ StartsWith(to_ascii_lowercase(Unwrap(Attr(a, "href"))), "https://"))
    THEN None
    ELSE UrlHost(Unwrap(Attr(a, "href")))

\* counts maps exactly the hosts in hosts, each to the number of its entries
CountsHosts(counts, hosts) ==
    /\ DOMAIN counts = { Unwrap(hosts[i]) : i \in { j \in DOMAIN hosts : IsSome(hosts[j]) } }
    /\ \A h \in DOMAIN counts :
          counts[h] = Cardinality({ i \in DOMAIN hosts : hosts[i] = Some(h) })

\* C12: the host counts are the same with ignore_magnet on and off; the hosts
\* counted are those of the http and https targets that parse, each with the
\* number of such targets, and a target that does not parse adds nothing.
C12_DomainCountsIgnoreMagnet ==
    pc = "links" /\ rets # << >> =>
        /\ CountsHosts(rets[1], [i \in 1..Len(call.anchors) |-> CountedHost(call.anchors[i])])
        /\ Len(rets) >= 2 => rets[2] = rets[1]

\* Scenario D: a magnet link, https://host-a/file.torrent and https://host-a/page
C12_Witness ==
    /\ pc = "links"
    /\ call.anchors = << Anchor("MAGNET:?b.torrent", << "x.torrent" >>),
                         Anchor("https://host-a/file.torrent", << >>),
                         Anchor("https://host-a/page", << " the", "page " >>) >>
    /\ Len(rets) >= 2
    /\ rets[1] = [h \in { "host-a" } |-> 2]
    /\ rets[2] = [h \in { "host-a" } |-> 2]

\* the target and the visible text of an a element that has a target, with
\* what the classification reads of them
LinkOf(a) ==
    [href   |-> Trim(Unwrap(Attr(a, "href"))),
     href_l |-> to_ascii_lowercase(Trim(Unwrap(Attr(a, "href")))),
     text   |-> normalize_ws(Join(a.nodes, " ")),
     text_l |-> to_ascii_lowercase(normalize_ws(Join(a.nodes, " ")))]

\* the links of the call
Links == { LinkOf(a) : a \in { x \in Range(call.anchors) : IsSome(Attr(x, "href")) } }

IsMagnet(link) == StartsWith(link.href_l, "magnet:")

IsHttp(link) == StartsWith(link.href_l, "http://") \/ StartsWith(link.href_l, "https://")

\* the three substring tests made on the target and the text as they are
LooksTorrentAsWritten(link) ==
    \/ Contains(link.href, ".torrent")
    \/ Contains(link.text, ".torrent")
    \/ Contains(link.text, "torrent file")

\* the three substring tests made on the lowercased target and text
LooksTorrentLowercased(link) ==
    \/ Contains(link.href_l, ".torrent")
    \/ Contains(link.text_l, ".torrent")
    \/ Contains(link.text_l, "torrent file")

\* the three lists hold exactly what the classification of `links' gives
Classified(extracted, magnets, torrents) ==
    /\ Range(extracted.magnet_links) = { l.href : l \in magnets }
    /\ Range(extracted.torrent_file_links) = { l.href : l \in torrents }
    /\ Range(extracted.torrent_file_names) = { l.text : l \in { x \in torrents : x.text # "" } }
    /\ \A l \in magnets : l.href \notin Range(extracted.torrent_file_links)

ClassifiedBy(extracted, links, LooksTorrent(_)) ==
    Classified(extracted,
               { x \in links : IsMagnet(x) },
               { x \in links : ~IsMagnet(x) /\ IsHttp(x) /\ LooksTorrent(x) })

\* C13 as stated: magnet targets go to the magnet list only; another link is
\* a torrent link iff its lowercased target begins with http:// or https://
\* and the target holds ".torrent" or the visible text holds ".torrent" or
\* "torrent file"; its text joins the names iff it is a torrent link and the
\* text is not empty.
C13_LinkClassificationAsWritten ==
    pc = "links" /\ Len(rets) = 3 => ClassifiedBy(rets[3], Links, LooksTorrentAsWritten)

\* C13, amended: the same, with the three substring tests made on the
\* lowercased target and the lowercased visible text.
C13_LinkClassificationLowercased ==
    pc = "links" /\ Len(rets) = 3 => ClassifiedBy(rets[3], Links, LooksTorrentLowercased)

\* a magnet link with .torrent in its text, a torrent link named by its text
\* in capitals, and a .torrent target of another scheme
C13_Witness ==
    /\ pc = "links"
    /\ call.anchors = << Anchor("MAGNET:?b.torrent", << "x.torrent" >>),
                         Anchor("HTTPS://Host-B:8080/dl ", << "Torrent  File" >>),
                         Anchor("ftp://host-c/f.torrent", << "f.torrent" >>) >>
    /\ Len(rets) = 3
    /\ rets[3] = [torrent_file_names |-> << "Torrent File" >>,
                  torrent_file_links |-> << "HTTPS://Host-B:8080/dl" >>,
                  magnet_links       |-> << "MAGNET:?b.torrent" >>]

-----------------------------------------------------------------------------
(* Claims about the torrent-presence flag                                  *)

\* the file a document was made from
InputOf(doc) == files[InputIndex(doc.source.path)]

\* C14: in both variants, with the torrent_file toggle on the flag is present
\* and true exactly when the document has a torrent link, whether or not the
\* links themselves are written to the record; with the toggle off it is
\* absent.
C14_TorrentFlagIffTorrentLinks ==
    \A i \in 1..Len(docs) :
        docs[i].torrent_file
            = IF config.scrape.torrent_file
              THEN Some(extract_torrent_and_magnet(InputOf(docs[i]).disk.html)
                            .torrent_file_links # << >>)
              ELSE None

\* a generic document with torrent links, the flag on and the link list off
C14_Witness ==
    /\ Len(docs) = 1
    /\ docs[1].site = "generic"
    /\ config.scrape.torrent_file
    /\ ~config.scrape.torrent_file_link
    /\ docs[1].torrent_file = Some(TRUE)
    /\ docs[1].torrent_file_links = << >>

-----------------------------------------------------------------------------
(* Claims about write_output                                               *)

\* the line every position of the line-delimited output must hold: the
\* documents in order, then the errors in order tagged "error", then the
\* summary
ExpectedLine(b, k) ==
    IF k <= Len(b.documents) THEN b.documents[k]
    ELSE IF k <= Len(b.documents) + Len(b.errors)
    THEN [type |-> "error", data |-> b.errors[k - Len(b.documents)]]
    ELSE [type |-> "summary", data |-> b.stats]

IsTagged(line, tag) == "type" \in DOMAIN line /\ line.type = tag

\* C15: in line-delimited mode the lines written so far are the documents in
\* order, then the errors in order tagged "error", then the summary tagged
\* "summary"; a document line carries no tag and none follows an error line;
\* when write_output has returned the summary is the last line and the only
\* summary line, with or without documents and errors.
C15_LinesDocsErrorsSummary ==
    pc \in { "write_output", "written" } /\ call.ndjson =>
        /\ Len(stdout) <= Len(Unwrap(bundle).documents) + Len(Unwrap(bundle).errors) + 1
        /\ \A k \in 1..Len(stdout) : stdout[k] = ExpectedLine(Unwrap(bundle), k)
        /\ \A j, k \in 1..Len(stdout) :
              IsTagged(stdout[j], "error") /\ j < k =>
                  IsTagged(stdout[k], "error") \/ IsTagged(stdout[k], "summary")
        /\ \A k \in 1..Len(Unwrap(bundle).documents) :
              k <= Len(stdout) => "type" \notin DOMAIN stdout[k]
        /\ pc = "written" =>
              /\ stdout # << >>
              /\ IsTagged(stdout[Len(stdout)], "summary")
              /\ Cardinality({ k \in 1..Len(stdout) : IsTagged(stdout[k], "summary") }) = 1
              /\ Len(stdout)
                    = Len(Unwrap(bundle).documents) + Len(Unwrap(bundle).errors) + 1

\* a batch of two documents around one failed file, written out in full
C15_Witness ==
    /\ pc = "written"
    /\ call.ndjson
    /\ Len(Unwrap(bundle).documents) = 2
    /\ Len(Unwrap(bundle).errors) = 1
    /\ Len(stdout) = 4
    /\ IsTagged(stdout[3], "error")
    /\ IsTagged(stdout[4], "summary")

-----------------------------------------------------------------------------
(* Claims about the fields read from the Genres/Tags paragraph             *)

\* the normalized texts of the paragraphs of the call
ParagraphTexts ==
    [i \in 1..Len(call.paragraphs) |-> normalize_ws(Join(call.paragraphs[i].nodes, " "))]

\* the positions of the paragraphs whose text holds the marker
MarkerPositions(texts) == { i \in DOMAIN texts : Contains(texts[i], "Genres/Tags:") }

\* the k-th smallest element of a set of numbers
Kth(S, k) == CHOOSE x \in S : Cardinality({ y \in S : y < x }) = k - 1

\* the pieces of s between its commas, in order
CommaPieces(s) ==
    LET cuts == { 0, Len(s) + 1 } \cup { i \in 1..Len(s) : CharAt(s, i) = "," }
    IN  [k \in 1..(Cardinality(cuts) - 1) |->
            SubSeq(s, Kth(cuts, k) + 1, Kth(cuts, k + 1) - 1)]

NotBlank(s) == Trim(s) # ""

\* the pieces trimmed, the empty ones dropped
TrimmedPieces(s) ==
    [k \in 1..Len(SelectSeq(CommaPieces(s), NotBlank)) |->
        Trim(SelectSeq(CommaPieces(s), NotBlank)[k])]

\* the release fields the claim reads from the paragraph text
FieldsOfText(text) ==
    [companies         |-> IF IsSome(SegmentOf(text, "Companies:",
                                << "Languages:", "Original Size:", "Repack Size:" >>))
                           THEN TrimmedPieces(Unwrap(SegmentOf(text, "Companies:",
                                << "Languages:", "Original Size:", "Repack Size:" >>)))
                           ELSE << >>,
     languages_raw     |-> SegmentOf(text, "Languages:", << "Original Size:", "Repack Size:" >>),
     original_size_raw |-> SegmentOf(text, "Original Size:", << "Repack Size:" >>),
     repack_size_raw   |-> SegmentOf(text, "Repack Size:", << >>)]

FourFields(release) ==
    [companies         |-> release.companies,
     languages_raw     |-> release.languages_raw,
     original_size_raw |-> release.original_size_raw,
     repack_size_raw   |-> release.repack_size_raw]

\* the release block matches the paragraphs whose normalized texts are `texts'
ReadFromParagraph(release, texts) ==
    IF MarkerPositions(texts) = {}
    THEN /\ FourFields(release) = [companies |-> << >>, languages_raw |-> None,
                                   original_size_raw |-> None, repack_size_raw |-> None]
         /\ release.genres_tags = << >>
    ELSE FourFields(release) = FieldsOfText(texts[SetMin(MarkerPositions(texts))])

\* C16: companies, languages, original size and repack size are the segments
\* of the normalized text of the first paragraph holding "Genres/Tags:", each
\* cut at the nearest of its next labels, companies split on commas with the
\* pieces trimmed and the empty ones dropped; without such a paragraph the
\* five fields are absent and the document is produced all the same.
C16_ReleaseFieldsFromMarkerParagraph ==
    pc = "parse_wordpress_release" =>
        \A i \in 1..Len(rets) :
            /\ IsSome(rets[i].release)
            /\ ReadFromParagraph(Unwrap(rets[i].release), ParagraphTexts)

\* Scenario B, the marker paragraph after one without the marker
C16_Witness ==
    /\ pc = "parse_wordpress_release"
    /\ Len(call.paragraphs) = 3
    /\ ParagraphTexts[2] = "Genres/Tags: Action, RPG Companies: Studio X, Studio Y Languages: English Original Size: 4.2 GB Repack Size: 1.1 GB"
    /\ Len(rets) = 1
    /\ FourFields(Unwrap(rets[1].release))
          = [companies         |-> << "Studio X", "Studio Y" >>,
             languages_raw     |-> Some("English"),
             original_size_raw |-> Some("4.2 GB"),
             repack_size_raw   |-> Some("1.1 GB")]

-----------------------------------------------------------------------------
(* Claims about the release number                                         *)

\* the title line: the normalized text of the first h3, None if there is no
\* h3 or its text is blank
TitleLine ==
    IF call.headings = << >> \/ normalize_ws(Join(call.headings[1].nodes, " ")) = ""
    THEN None
    ELSE Some(normalize_ws(Join(call.headings[1].nodes, " ")))

\* the number written by the digits of line from offset `from' on, six at most
NumberAt(line, from) ==
    ParseU64(StrSlice(line, from,
                 from + DigitRunLen(StrSlice(line, from, Len(line)), RELEASE_NO_MAX_DIGITS)))

\* the offsets of the '#' marks directly followed by a digit
MarksBeforeDigit(line) ==
    { p \in 0..(Len(line) - 2) : CharAt(line, p + 1) = "#" /\ IsDigit(CharAt(line, p + 2)) }

\* the offsets of the '#' marks followed by a digit after whitespace or none
MarksBeforeSpacedDigit(line) ==
    { p \in 0..(Len(line) - 2) :
        /\ CharAt(line, p + 1) = "#"
        /\ \E d \in (p + 1)..(Len(line) - 1) :
              /\ IsDigit(CharAt(line, d + 1))
              /\ \A w \in (p + 1)..(d - 1) : IsWhitespace(CharAt(line, w + 1)) }

\* the offset of the first character at or after `from' that is no whitespace
FirstInk(line, from) ==
    SetMin({ d \in from..Len(line) : d = Len(line) \/ ~IsWhitespace(CharAt(line, d + 1)) })

\* C17 as stated: the release number is the value of the first run of one to
\* six digits that directly follows a '#' of the title line, and is absent
\* when there is no title line or no '#' directly followed by a digit; the
\* game_title_line toggle plays no part.
C17_ReleaseNumberDirectlyAfterMark ==
    pc = "release_number" =>
        \A i \in 1..Len(rets) :
            Unwrap(rets[i].release).release_number
                = IF ~IsSome(TitleLine) \/ MarksBeforeDigit(Unwrap(TitleLine)) = {}
                  THEN None
                  ELSE NumberAt(Unwrap(TitleLine),
                                SetMin(MarksBeforeDigit(Unwrap(TitleLine))) + 1)

\* C17, amended: the same with whitespace allowed between the '#' and the
\* digits: the number is read after the first '#' that is followed, directly
\* or after whitespace, by a digit.
C17_ReleaseNumberAfterMark ==
    pc = "release_number" =>
        \A i \in 1..Len(rets) :
            Unwrap(rets[i].release).release_number
                = IF ~IsSome(TitleLine) \/ MarksBeforeSpacedDigit(Unwrap(TitleLine)) = {}
                  THEN None
                  ELSE NumberAt(Unwrap(TitleLine),
                                FirstInk(Unwrap(TitleLine),
                                         SetMin(MarksBeforeSpacedDigit(Unwrap(TitleLine))) + 1))

\* Scenario A with the game_title_line toggle off
C17_Witness ==
    /\ pc = "release_number"
    /\ TitleLine = Some("Release #123 - Game Name")
    /\ ~call.game_title_line
    /\ Len(rets) = 1
    /\ Unwrap(rets[1].release).release_number = Some(123)
    /\ Unwrap(rets[1].release).game_title_line = None
    /\ Unwrap(rets[1].post).post_id = Some(4821)

-----------------------------------------------------------------------------
(* Claims about what a file's entry depends on                             *)

\* the entries of the batch so far that carry this path
EntriesFor(path) ==
    [documents |-> SelectSeq(docs, LAMBDA d : d.source.path = path),
     errors    |-> SelectSeq(errs, LAMBDA e : e.path = path)]

\* the entries of the batch that holds this file alone
EntriesAlone(file) ==
    [documents |-> parse_many(<< file >>, config).documents,
     errors    |-> parse_many(<< file >>, config).errors]

\* C18: the document or error a file gets in a batch is the one it gets in
\* the batch that holds it alone, whatever files come before and after it and
\* whether these parse or fail.
C18_EntryDependsOnFileOnly ==
    \A i \in 1..idx : EntriesFor(files[i].path) = EntriesAlone(files[i])

\* the same file content before and after a file that fails: two documents
\* that differ in their path only
C18_Witness ==
    /\ pc = "done"
    /\ Len(files) = 3
    /\ files[1].disk = files[3].disk
    /\ Failing(files[2])
    /\ Len(docs) = 2
    /\ docs[1].source.path # docs[2].source.path
    /\ [docs[1] EXCEPT !.source.path = ""] = [docs[2] EXCEPT !.source.path = ""]

-----------------------------------------------------------------------------
(* Claims about the generic variant                                        *)

\* C19: a generic document has no post block, no release block, no spoiler
\* sections and no download-section headings, whatever the configuration and
\* the content; a document that has any of the four is a wordpress_release
\* document.
C19_GenericCarriesNoPostOutputs ==
    \A i \in 1..Len(docs) :
        /\ docs[i].site = "generic" =>
              /\ docs[i].post = None
              /\ docs[i].release = None
              /\ docs[i].spoiler_sections = << >>
              /\ docs[i].download_section_headings = << >>
        /\ \/ IsSome(docs[i].post)
           \/ IsSome(docs[i].release)
           \/ docs[i].spoiler_sections # << >>
           \/ docs[i].download_section_headings # << >>
           => docs[i].site = "wordpress_release"

\* a release post read with layout detection off: spoilers and download
\* headings are in the file, the page block and the links are in the record
C19_Witness ==
    /\ Len(docs) = 1
    /\ docs[1].site = "generic"
    /\ ~config.profile.wordpress_release_layout
    /\ InputOf(docs[1]).disk = WpReleaseDisk
    /\ Enabled(config) = AllOn
    /\ IsSome(docs[1].page)
    /\ docs[1].magnet_links # << >>
    /\ extract_spoilers(WpReleaseHtml, config.profile.spoiler_denylist) # << >>

=============================================================================
